---------------------------- MODULE Spec2Model ----------------------------
(***************************************************************************)
(* Model of the resilience core of langgraph-research:                     *)
(*   src/src/utils/retry_handler.py      AdvancedRetryHandler              *)
(*   src/src/utils/fallback_strategies.py FallbackStrategyManager          *)
(*                                                                         *)
(* Times are integers in hundredths of a second.  The handler runs on one  *)
(* asyncio event loop: a coroutine runs without interruption between two   *)
(* awaits, so every action below is the code between two awaits of         *)
(* execute_with_retry (await operation(), await asyncio.sleep()).          *)
(***************************************************************************)
EXTENDS Integers, Sequences, FiniteSets, TLC

\* ------------------------------------------------------------------ bounds
MaxCalls == 5
MaxAttempts == 3
MaxThreshold == 2

OneSecond == 10 * 10

Tasks == {"t1", "t2"}
OperationIds == {"op_a", "op_b"}

\* Optional[...] = None
None == -1

\* ------------------------------------------------------------ enumerations
EXPONENTIAL_BACKOFF == "exponential_backoff"
LINEAR_BACKOFF == "linear_backoff"
FIXED_DELAY == "fixed_delay"
IMMEDIATE == "immediate"
RetryStrategy == {EXPONENTIAL_BACKOFF, LINEAR_BACKOFF, FIXED_DELAY, IMMEDIATE}

CLOSED == "closed"
OPEN == "open"
HALF_OPEN == "half_open"
CircuitState == {CLOSED, OPEN, HALF_OPEN}

\* circuit_breakers is a dict: a function whose DOMAIN is the set of operation
\* ids that have a breaker.
\* CircuitBreakerState()
CircuitBreakerState ==
    [state |-> CLOSED, failure_count |-> 0, success_count |-> 0,
     last_failure_time |-> None, next_attempt_time |-> None]

\* RetryConfig(...): the fields execute_with_retry reads
RetryConfig(ma, md, strat, jit, ecb, ft, st) ==
    [max_attempts |-> ma, base_delay |-> OneSecond, max_delay |-> md,
     backoff_multiplier |-> 2, jitter |-> jit, strategy |-> strat,
     retry_on_timeout |-> TRUE, retry_on_connection_error |-> TRUE,
     retry_on_parse_error |-> TRUE, retry_on_empty_response |-> TRUE,
     enable_circuit_breaker |-> ecb, failure_threshold |-> ft,
     recovery_timeout |-> 2 * OneSecond, success_threshold |-> st]


\* ------------------------------------------------------------- exceptions
\* An exception object: its class name, its str(), the retry_after attribute
\* (RetryableError only, None elsewhere) and the attempt that raised it
\* (object identity: two attempts never raise the same object).
ErrorTypes == {"RetryableError", "NonRetryableError", "TimeoutError",
               "ConnectionError", "ValueError", "TypeError", "AttributeError",
               "RuntimeError"}
Messages == {"boom", "parse error", "empty response"}

\* 'timeout' in type(e).__name__.lower()
TimeoutNamed == {"TimeoutError"}
\* any(term in error_name for term in ['connection', 'network'])
ConnectionNamed == {"ConnectionError"}
\* any(term in str(e).lower() for term in ['parse', 'json', 'format'])
ParseWorded == {"parse error"}
\* 'empty' in str(e).lower()
EmptyWorded == {"empty response"}
\* non_retryable_types
NonRetryableTypes == {"ValueError", "TypeError", "AttributeError"}

Exception(ty, msg, ra, at) ==
    [type |-> ty, message |-> msg, retry_after |-> ra, raised_at |-> at]

\* raise NonRetryableError(f"Circuit breaker OPEN for {operation_id}")
CircuitOpenException ==
    Exception("NonRetryableError", "Circuit breaker OPEN", None, 0)

\* _should_retry without its first test: NonRetryableError falls through to
\* the name and message tests and the default.
ShouldRetry_NoPermanentErrors(exception, attempt, config) ==
    IF exception.type = "RetryableError" THEN TRUE
    ELSE IF exception.type \in TimeoutNamed /\ config.retry_on_timeout THEN TRUE
    ELSE IF exception.type \in ConnectionNamed /\ config.retry_on_connection_error
         THEN TRUE
    ELSE IF exception.message \in ParseWorded /\ config.retry_on_parse_error
         THEN TRUE
    ELSE IF exception.message \in EmptyWorded /\ config.retry_on_empty_response
         THEN TRUE
    ELSE IF exception.type \in NonRetryableTypes THEN FALSE
    ELSE TRUE

\* ----------------------------------------------------------- _should_retry
ShouldRetry(exception, attempt, config) ==
    IF exception.type = "NonRetryableError" THEN FALSE
    ELSE IF exception.type = "RetryableError" THEN TRUE
    ELSE IF exception.type \in TimeoutNamed /\ config.retry_on_timeout THEN TRUE
    ELSE IF exception.type \in ConnectionNamed /\ config.retry_on_connection_error
         THEN TRUE
    ELSE IF exception.message \in ParseWorded /\ config.retry_on_parse_error
         THEN TRUE
    ELSE IF exception.message \in EmptyWorded /\ config.retry_on_empty_response
         THEN TRUE
    ELSE IF exception.type \in NonRetryableTypes THEN FALSE
    ELSE TRUE

\* --------------------------------------------------------- _calculate_delay
RECURSIVE Pow(_, _)
Pow(b, e) == IF e = 0 THEN 1 ELSE b * Pow(b, e - 1)

Min(a, b) == IF a <= b THEN a ELSE b
Max(a, b) == IF a >= b THEN a ELSE b

\* float product cut to the time resolution (towards zero)
Quot(a, b) == IF a >= 0 THEN a \div b ELSE -((-a) \div b)

\* random.random() is draw / RandomSteps, draw \in 0 .. RandomSteps - 1
RandomSteps == 3
RandomDraws == 0 .. (RandomSteps - 1)

\* the strategy's value with the line delay = min(delay, config.max_delay)
\* left out
BaseDelay_Unclamped(attempt, config) ==
    IF config.strategy = FIXED_DELAY THEN config.base_delay
    ELSE IF config.strategy = LINEAR_BACKOFF THEN config.base_delay * attempt
    ELSE IF config.strategy = EXPONENTIAL_BACKOFF
         THEN config.base_delay * Pow(config.backoff_multiplier, attempt - 1)
    ELSE config.base_delay

\* delay before jitter: the strategy's value, limited by max_delay
BaseDelay(attempt, config) ==
    LET delay ==
          IF config.strategy = FIXED_DELAY THEN config.base_delay
          ELSE IF config.strategy = LINEAR_BACKOFF THEN config.base_delay * attempt
          ELSE IF config.strategy = EXPONENTIAL_BACKOFF
               THEN config.base_delay * Pow(config.backoff_multiplier, attempt - 1)
          ELSE config.base_delay
    IN  Min(delay, config.max_delay)

\* jitter = delay * jitter_factor * (random.random() * 2 - 1), jitter_factor 0.1
Jitter(delay, draw) == Quot(delay * (2 * draw - RandomSteps), 10 * RandomSteps)

CalculateDelay(attempt, config, exception, draw) ==
    IF exception.type = "RetryableError"
       /\ exception.retry_after # None /\ exception.retry_after # 0
    THEN exception.retry_after
    ELSE IF config.strategy = IMMEDIATE THEN 0
    ELSE LET delay == BaseDelay(attempt, config)
         IN  IF config.jitter THEN Max(0, delay + Jitter(delay, draw))
             ELSE delay

\* ------------------------------------------------------------ _can_execute
\* The breakers after the call (CanExecuteBreakers) and the value returned
\* (CanExecute).
\* _can_execute forgetting to reset success_count on entering half_open.
CanExecuteBreakers_KeepsSuccesses(breakers, operation_id, config, now) ==
    LET created == IF operation_id \notin DOMAIN breakers
                   THEN breakers @@ (operation_id :> CircuitBreakerState)
                   ELSE breakers
        breaker == created[operation_id]
    IN  IF breaker.state = OPEN
           /\ breaker.next_attempt_time # None /\ now >= breaker.next_attempt_time
        THEN [created EXCEPT ![operation_id].state = HALF_OPEN]
        ELSE created

CanExecuteBreakers(breakers, operation_id, config, now) ==
    LET created == IF operation_id \notin DOMAIN breakers
                   THEN breakers @@ (operation_id :> CircuitBreakerState)
                   ELSE breakers
        breaker == created[operation_id]
    IN  IF breaker.state = OPEN
           /\ breaker.next_attempt_time # None /\ now >= breaker.next_attempt_time
        THEN [created EXCEPT ![operation_id].state = HALF_OPEN,
                             ![operation_id].success_count = 0]
        ELSE created

\* _can_execute with one gate for all ids: an open breaker of any id that
\* is not yet due refuses the call.
CanExecute_AnyOpen(breakers, operation_id, config, now) ==
    \A id \in DOMAIN breakers \cup {operation_id} :
        LET before == IF id \in DOMAIN breakers
                      THEN breakers[id] ELSE CircuitBreakerState
        IN  before.state = OPEN =>
                before.next_attempt_time # None /\ now >= before.next_attempt_time

\* _can_execute comparing the times the wrong way round.
CanExecute_Inverted(breakers, operation_id, config, now) ==
    LET before == IF operation_id \in DOMAIN breakers
                  THEN breakers[operation_id] ELSE CircuitBreakerState
    IN  IF before.state = CLOSED THEN TRUE
        ELSE IF before.state = OPEN
             THEN before.next_attempt_time # None
                  /\ now <= before.next_attempt_time
        ELSE IF before.state = HALF_OPEN THEN TRUE
        ELSE FALSE

\* _can_execute with > for >=: a call at next_attempt_time is still refused.
CanExecute_Strict(breakers, operation_id, config, now) ==
    LET before == IF operation_id \in DOMAIN breakers
                  THEN breakers[operation_id] ELSE CircuitBreakerState
    IN  IF before.state = CLOSED THEN TRUE
        ELSE IF before.state = OPEN
             THEN before.next_attempt_time # None
                  /\ now > before.next_attempt_time
        ELSE IF before.state = HALF_OPEN THEN TRUE
        ELSE FALSE

CanExecute(breakers, operation_id, config, now) ==
    LET before == IF operation_id \in DOMAIN breakers
                  THEN breakers[operation_id] ELSE CircuitBreakerState
    IN  IF before.state = CLOSED THEN TRUE
        ELSE IF before.state = OPEN
             THEN before.next_attempt_time # None
                  /\ now >= before.next_attempt_time
        ELSE IF before.state = HALF_OPEN THEN TRUE
        ELSE FALSE

\* --------------------------------------------------------- _record_success
SuccessRecord(operation_id, attempt) ==
    [operation_id |-> operation_id, result |-> "success", attempt |-> attempt,
     error_type |-> "none"]

\* _record_success without the elif branch: a success while closed keeps the
\* failure count.
RecordSuccessBreakers_KeepsCount(breakers, operation_id, config) ==
    IF config.enable_circuit_breaker /\ operation_id \in DOMAIN breakers
    THEN LET breaker == breakers[operation_id]
         IN  IF breaker.state = HALF_OPEN
             THEN IF breaker.success_count + 1 >= config.success_threshold
                  THEN [breakers EXCEPT
                          ![operation_id].success_count = breaker.success_count + 1,
                          ![operation_id].state = CLOSED,
                          ![operation_id].failure_count = 0]
                  ELSE [breakers EXCEPT
                          ![operation_id].success_count = breaker.success_count + 1]
             ELSE breakers
    ELSE breakers

\* _record_success closing the breaker from open as from half_open
RecordSuccessBreakers_ClosesOpen(breakers, operation_id, config) ==
    IF config.enable_circuit_breaker /\ operation_id \in DOMAIN breakers
    THEN LET breaker == breakers[operation_id]
         IN  IF breaker.state \in {HALF_OPEN, OPEN}
             THEN IF breaker.success_count + 1 >= config.success_threshold
                  THEN [breakers EXCEPT
                          ![operation_id].success_count = breaker.success_count + 1,
                          ![operation_id].state = CLOSED,
                          ![operation_id].failure_count = 0]
                  ELSE [breakers EXCEPT
                          ![operation_id].success_count = breaker.success_count + 1]
             ELSE IF breaker.state = CLOSED
                  THEN [breakers EXCEPT ![operation_id].failure_count = 0]
             ELSE breakers
    ELSE breakers

RecordSuccessBreakers(breakers, operation_id, config) ==
    IF config.enable_circuit_breaker /\ operation_id \in DOMAIN breakers
    THEN LET breaker == breakers[operation_id]
         IN  IF breaker.state = HALF_OPEN
             THEN IF breaker.success_count + 1 >= config.success_threshold
                  THEN [breakers EXCEPT
                          ![operation_id].success_count = breaker.success_count + 1,
                          ![operation_id].state = CLOSED,
                          ![operation_id].failure_count = 0]
                  ELSE [breakers EXCEPT
                          ![operation_id].success_count = breaker.success_count + 1]
             ELSE IF breaker.state = CLOSED
                  THEN [breakers EXCEPT ![operation_id].failure_count = 0]
             ELSE breakers
    ELSE breakers

\* --------------------------------------------------------- _record_failure
FailureRecord(operation_id, attempt, exception) ==
    [operation_id |-> operation_id, result |-> "failure", attempt |-> attempt,
     error_type |-> exception.type]

\* _record_failure without the test of the state: every failure at or above
\* the threshold sets next_attempt_time anew, also while the breaker is open.
RecordFailureBreakers_Sliding(breakers, operation_id, config, now) ==
    IF config.enable_circuit_breaker
    THEN LET created == IF operation_id \notin DOMAIN breakers
                        THEN breakers @@ (operation_id :> CircuitBreakerState)
                        ELSE breakers
             breaker == created[operation_id]
             counted == [created EXCEPT
                           ![operation_id].failure_count = breaker.failure_count + 1,
                           ![operation_id].last_failure_time = now]
         IN  IF breaker.failure_count + 1 >= config.failure_threshold
             THEN [counted EXCEPT
                     ![operation_id].state = OPEN,
                     ![operation_id].next_attempt_time = now + config.recovery_timeout]
             ELSE counted
    ELSE breakers

\* _record_failure losing an update: of two failures recorded at the same
\* instant only the first is counted.
RecordFailureBreakers_LostUpdate(breakers, operation_id, config, now) ==
    IF config.enable_circuit_breaker
    THEN LET created == IF operation_id \notin DOMAIN breakers
                        THEN breakers @@ (operation_id :> CircuitBreakerState)
                        ELSE breakers
             breaker == created[operation_id]
             count == IF breaker.last_failure_time = now
                      THEN breaker.failure_count
                      ELSE breaker.failure_count + 1
             counted == [created EXCEPT
                           ![operation_id].failure_count = count,
                           ![operation_id].last_failure_time = now]
         IN  IF breaker.state \in {CLOSED, HALF_OPEN}
                /\ count >= config.failure_threshold
             THEN [counted EXCEPT
                     ![operation_id].state = OPEN,
                     ![operation_id].next_attempt_time = now + config.recovery_timeout]
             ELSE counted
    ELSE breakers

\* _record_failure with > for >=: the breaker opens one failure late.
RecordFailureBreakers_Late(breakers, operation_id, config, now) ==
    IF config.enable_circuit_breaker
    THEN LET created == IF operation_id \notin DOMAIN breakers
                        THEN breakers @@ (operation_id :> CircuitBreakerState)
                        ELSE breakers
             breaker == created[operation_id]
             counted == [created EXCEPT
                           ![operation_id].failure_count = breaker.failure_count + 1,
                           ![operation_id].last_failure_time = now]
         IN  IF breaker.state \in {CLOSED, HALF_OPEN}
                /\ breaker.failure_count + 1 > config.failure_threshold
             THEN [counted EXCEPT
                     ![operation_id].state = OPEN,
                     ![operation_id].next_attempt_time = now + config.recovery_timeout]
             ELSE counted
    ELSE breakers

RecordFailureBreakers(breakers, operation_id, config, now) ==
    IF config.enable_circuit_breaker
    THEN LET created == IF operation_id \notin DOMAIN breakers
                        THEN breakers @@ (operation_id :> CircuitBreakerState)
                        ELSE breakers
             breaker == created[operation_id]
             counted == [created EXCEPT
                           ![operation_id].failure_count = breaker.failure_count + 1,
                           ![operation_id].last_failure_time = now]
         IN  IF breaker.state \in {CLOSED, HALF_OPEN}
                /\ breaker.failure_count + 1 >= config.failure_threshold
             THEN [counted EXCEPT
                     ![operation_id].state = OPEN,
                     ![operation_id].next_attempt_time = now + config.recovery_timeout]
             ELSE counted
    ELSE breakers

\* --------------------------------------------------------- get_retry_stats
\* the loop without its test attempt > 1: first attempts are counted too
RECURSIVE RetryCounts_FirstAttemptsToo(_)
RetryCounts_FirstAttemptsToo(history) ==
    IF history = <<>> THEN [k \in {} |-> 0]
    ELSE LET counts == RetryCounts_FirstAttemptsToo(SubSeq(history, 1, Len(history) - 1))
             attempt == history[Len(history)].attempt
         IN  IF attempt \in DOMAIN counts
             THEN [counts EXCEPT ![attempt] = counts[attempt] + 1]
             ELSE counts @@ (attempt :> 1)

\* The loop over history that fills retry_counts (lines 332-336).
RECURSIVE RetryCounts(_)
RetryCounts(history) ==
    IF history = <<>> THEN [k \in {} |-> 0]
    ELSE LET counts == RetryCounts(SubSeq(history, 1, Len(history) - 1))
             attempt == history[Len(history)].attempt
         IN  IF attempt > 1
             THEN IF attempt \in DOMAIN counts
                  THEN [counts EXCEPT ![attempt] = counts[attempt] + 1]
                  ELSE counts @@ (attempt :> 1)
             ELSE counts

\* get_retry_stats(operation_id) for an operation id (not None, not "");
\* execution times are not modelled, so avg_execution_time is left out;
\* success_rate is the fraction num / den
GetRetryStats(history, operation_id) ==
    LET mine == SelectSeq(history, LAMBDA h : h.operation_id = operation_id)
        total_ops == Len(mine)
        successes == Len(SelectSeq(mine, LAMBDA h : h.result = "success"))
        failures == Len(SelectSeq(mine, LAMBDA h : h.result = "failure"))
    IN  IF mine = <<>> THEN [total_operations |-> 0]
        ELSE [total_operations |-> total_ops, successes |-> successes,
              failures |-> failures,
              success_rate |-> [num |-> successes, den |-> total_ops],
              retry_distribution |-> RetryCounts(mine),
              operation_id |-> operation_id]

\* ================================================================== state
VARIABLES
    default_config,     \* AdvancedRetryHandler.default_config
    circuit_breakers,   \* AdvancedRetryHandler.circuit_breakers
    retry_history,      \* AdvancedRetryHandler.retry_history
    clock,              \* datetime.now()
    tasks,              \* the coroutines running execute_with_retry
    workload,           \* who calls, for which ids, and what the operation raises
    calls_left,         \* calls the callers still make
    cached_responses,   \* ResponseCache: the table cached_responses
    handoff_requests,   \* HumanHandoffQueue: the table handoff_requests
    fallback_history,   \* FallbackStrategyManager.fallback_history
    fallback_tasks,     \* the coroutines running execute_with_fallbacks
    fallback_calls_left \* calls of execute_with_fallbacks still made

retry_vars == <<default_config, circuit_breakers, retry_history, clock, tasks,
                workload, calls_left>>
handler_vars == <<default_config, circuit_breakers, retry_history, tasks,
                  workload, calls_left>>
fallback_vars == <<cached_responses, handoff_requests, fallback_history,
                   fallback_tasks, fallback_calls_left>>
vars == <<default_config, circuit_breakers, retry_history, clock, tasks,
          workload, calls_left, cached_responses, handoff_requests,
          fallback_history, fallback_tasks, fallback_calls_left>>

NoException == Exception("none", "", None, 0)

\* The locals of one execute_with_retry call.  pc is the await the coroutine is
\* suspended at: "running" = await operation(), "sleeping" = await
\* asyncio.sleep(delay); "returned" / "raised" = how the call ended.
\* call_no, invoked, delays, rejected and errors are history fields: the
\* number of the call (1 for the first call made), the number of times the
\* operation was invoked, the delays computed between attempts, whether the
\* breaker refused the call, and the exception objects the operation raised,
\* in order.
IdleTask ==
    [pc |-> "idle", operation_id |-> "none", attempt |-> 0,
     last_exception |-> NoException, wake |-> None, result |-> None,
     call_no |-> 0, invoked |-> 0, delays |-> <<>>, rejected |-> FALSE,
     errors |-> <<>>]

\* What an operation may raise: class, message, retry_after.
Raisable(types, messages, hints) ==
    {e \in [type : types, message : messages, retry_after : hints] :
        e.retry_after # None => e.type = "RetryableError"}

\* The callers and the handler configurations explored.
\*  - lifecycle: one caller makes MaxCalls calls of one or two attempts for
\*    one id;
\*  - loop: one call with up to MaxAttempts attempts, every strategy, with and
\*    without jitter, every kind of error; and the configuration of
\*    demonstrate_exponential_backoff (examples/phase4_retry_mechanisms.py);
\*  - concurrent: two callers, two ids, two-attempt calls.
Thresholds == 1 .. MaxThreshold

LifecycleWorkload ==
    [name |-> "lifecycle", callers |-> {"t1"}, operation_ids |-> {"op_a"}, calls |-> MaxCalls,
     errors |-> Raisable({"RetryableError", "NonRetryableError"}, {"boom"}, {None}),
     configs |-> {RetryConfig(ma, 3 * OneSecond, EXPONENTIAL_BACKOFF, FALSE, TRUE, ft, st) :
                     ma \in 1 .. 2, ft \in Thresholds, st \in Thresholds}]

DemoConfig ==
    RetryConfig(5, 30 * OneSecond, EXPONENTIAL_BACKOFF, FALSE, TRUE, 5, 2)

LoopWorkload ==
    [name |-> "loop", callers |-> {"t1"}, operation_ids |-> {"op_a"}, calls |-> 1,
     errors |-> Raisable({"RetryableError", "NonRetryableError", "RuntimeError"},
                         {"boom"}, {None, 0, 4 * OneSecond}),
     configs |-> {DemoConfig} \cup
                 {RetryConfig(ma, 3 * OneSecond, strat, jit, ecb, MaxThreshold, 1) :
                     ma \in 1 .. MaxAttempts, strat \in RetryStrategy,
                     jit \in BOOLEAN, ecb \in BOOLEAN}]

ConcurrentWorkload ==
    [name |-> "concurrent", callers |-> Tasks, operation_ids |-> OperationIds, calls |-> 2,
     errors |-> Raisable({"RetryableError", "NonRetryableError"}, {"boom"}, {None}),
     configs |-> {RetryConfig(ma, 3 * OneSecond, FIXED_DELAY, FALSE, TRUE, ft, 1) :
                     ma \in 1 .. 2, ft \in Thresholds}]

Workloads == {LifecycleWorkload, LoopWorkload, ConcurrentWorkload}

\* The callers and configurations that exercise the retry policy alone (no
\* breaker, one call):
\*  - clamp: a max_delay of 1.5 s, which the linear and the exponential
\*    strategy exceed at the second attempt, and one of 3 s; every strategy,
\*    with and without jitter;
\*  - category: every class of error with every message, under every setting
\*    of the four retry_on_ flags; no waits.
ClampWorkload ==
    [name |-> "clamp", callers |-> {"t1"}, operation_ids |-> {"op_a"}, calls |-> 1,
     errors |-> Raisable({"RetryableError", "RuntimeError"}, {"boom"}, {None}),
     configs |-> {RetryConfig(ma, md, strat, jit, FALSE, MaxThreshold, 1) :
                     ma \in 2 .. MaxAttempts,
                     md \in {(3 * OneSecond) \div 2, 3 * OneSecond},
                     strat \in RetryStrategy, jit \in BOOLEAN}]

CategoryWorkload ==
    [name |-> "category", callers |-> {"t1"}, operation_ids |-> {"op_a"}, calls |-> 1,
     errors |-> Raisable(ErrorTypes, Messages, {None}),
     configs |-> {[RetryConfig(2, 3 * OneSecond, IMMEDIATE, FALSE, FALSE,
                               MaxThreshold, 1)
                      EXCEPT !.retry_on_timeout = on_timeout,
                             !.retry_on_connection_error = on_connection,
                             !.retry_on_parse_error = on_parse,
                             !.retry_on_empty_response = on_empty] :
                     on_timeout \in BOOLEAN, on_connection \in BOOLEAN,
                     on_parse \in BOOLEAN, on_empty \in BOOLEAN}]

PolicyWorkloads == {ClampWorkload, CategoryWorkload}

\* the workload variable holds the name; Load is the workload it names
Load == CHOOSE w \in Workloads \cup PolicyWorkloads : w.name = workload

RetryInit ==
    /\ workload \in {w.name : w \in Workloads}
    /\ default_config \in Load.configs
    /\ calls_left = Load.calls
    /\ circuit_breakers = [id \in {} |-> CircuitBreakerState]
    /\ retry_history = <<>>
    /\ clock = 0
    /\ tasks = [t \in Tasks |-> IdleTask]

\* ---------------------------------------------------- execute_with_retry
\* Lines 104-121: the gate, then the first pass of the loop up to the await.
ExecuteWithRetry(t, operation_id) ==
    LET config == default_config
        call_no == Load.calls - calls_left + 1
        first == [IdleTask EXCEPT !.pc = "running", !.operation_id = operation_id,
                                  !.attempt = 1, !.invoked = 1,
                                  !.call_no = call_no]
        refused == [IdleTask EXCEPT !.pc = "raised", !.operation_id = operation_id,
                                    !.last_exception = CircuitOpenException,
                                    !.rejected = TRUE, !.call_no = call_no]
    IN  /\ tasks[t].pc \in {"idle", "returned", "raised"}
        /\ calls_left > 0
        /\ calls_left' = calls_left - 1
        /\ IF config.enable_circuit_breaker
           THEN /\ circuit_breakers' =
                      CanExecuteBreakers(circuit_breakers, operation_id, config, clock)
                /\ tasks' = [tasks EXCEPT ![t] =
                      IF CanExecute(circuit_breakers, operation_id, config, clock)
                      THEN first ELSE refused]
           ELSE /\ tasks' = [tasks EXCEPT ![t] = first]
                /\ UNCHANGED circuit_breakers
        /\ UNCHANGED <<default_config, retry_history, clock, workload>>
        /\ UNCHANGED fallback_vars

\* The return of the operation held up while another call sleeps, as if the
\* sleeping call kept the handler to itself.
OperationReturns_WaitsForSleepers(t) ==
    LET task == tasks[t]
        config == default_config
    IN  /\ task.pc = "running"
        /\ \A u \in Tasks : tasks[u].pc # "sleeping"
        /\ retry_history' =
              Append(retry_history, SuccessRecord(task.operation_id, task.attempt))
        /\ circuit_breakers' =
              RecordSuccessBreakers(circuit_breakers, task.operation_id, config)
        /\ tasks' = [tasks EXCEPT ![t].pc = "returned", ![t].result = task.attempt]
        /\ UNCHANGED <<default_config, clock, workload, calls_left>>
        /\ UNCHANGED fallback_vars

\* Lines 121-127: the operation returned.
OperationReturns(t) ==
    LET task == tasks[t]
        config == default_config
    IN  /\ task.pc = "running"
        /\ retry_history' =
              Append(retry_history, SuccessRecord(task.operation_id, task.attempt))
        /\ circuit_breakers' =
              RecordSuccessBreakers(circuit_breakers, task.operation_id, config)
        /\ tasks' = [tasks EXCEPT ![t].pc = "returned", ![t].result = task.attempt]
        /\ UNCHANGED <<default_config, clock, workload, calls_left>>
        /\ UNCHANGED fallback_vars

\* The loop with attempt > max_attempts for >=: one attempt too many.
AfterFailure_OneMore(task, config, e, should_retry, delay, now) ==
    LET failed == [task EXCEPT !.last_exception = e,
                               !.errors = Append(task.errors, e)]
    IN  IF ~should_retry \/ task.attempt > config.max_attempts
        THEN [failed EXCEPT !.pc = "raised"]
        ELSE IF delay > 0
             THEN [failed EXCEPT !.pc = "sleeping", !.wake = now + delay,
                                 !.delays = Append(task.delays, delay)]
             ELSE [failed EXCEPT !.pc = "running", !.attempt = task.attempt + 1,
                                 !.invoked = task.invoked + 1,
                                 !.delays = Append(task.delays, delay)]

\* The loop keeping the first exception (last_exception set only when unset).
AfterFailure_FirstError(task, config, e, should_retry, delay, now) ==
    LET kept == IF task.last_exception = NoException THEN e
                ELSE task.last_exception
        failed == [task EXCEPT !.last_exception = kept,
                               !.errors = Append(task.errors, e)]
    IN  IF ~should_retry \/ task.attempt >= config.max_attempts
        THEN [failed EXCEPT !.pc = "raised"]
        ELSE IF delay > 0
             THEN [failed EXCEPT !.pc = "sleeping", !.wake = now + delay,
                                 !.delays = Append(task.delays, delay)]
             ELSE [failed EXCEPT !.pc = "running", !.attempt = task.attempt + 1,
                                 !.invoked = task.invoked + 1,
                                 !.delays = Append(task.delays, delay)]

\* The task after a failed attempt (lines 129-155 and, with no delay, the next
\* pass of the loop up to the await).
AfterFailure(task, config, e, should_retry, delay, now) ==
    LET failed == [task EXCEPT !.last_exception = e,
                               !.errors = Append(task.errors, e)]
    IN  IF ~should_retry \/ task.attempt >= config.max_attempts
        THEN [failed EXCEPT !.pc = "raised"]
        ELSE IF delay > 0
             THEN [failed EXCEPT !.pc = "sleeping", !.wake = now + delay,
                                 !.delays = Append(task.delays, delay)]
             ELSE [failed EXCEPT !.pc = "running", !.attempt = task.attempt + 1,
                                 !.invoked = task.invoked + 1,
                                 !.delays = Append(task.delays, delay)]

\* Lines 129-151: the operation raised.
OperationRaises(t, err, draw) ==
    LET task == tasks[t]
        config == default_config
        e == Exception(err.type, err.message, err.retry_after, task.attempt)
        should_retry == ShouldRetry(e, task.attempt, config)
        delay == CalculateDelay(task.attempt, config, e, draw)
    IN  /\ task.pc = "running"
        /\ retry_history' =
              Append(retry_history, FailureRecord(task.operation_id, task.attempt, e))
        /\ circuit_breakers' =
              RecordFailureBreakers(circuit_breakers, task.operation_id, config, clock)
        /\ tasks' = [tasks EXCEPT ![t] =
              AfterFailure(task, config, e, should_retry, delay, clock)]
        /\ UNCHANGED <<default_config, clock, workload, calls_left>>
        /\ UNCHANGED fallback_vars

\* Line 151 returns: the next pass of the loop up to the await (lines 114-121).
SleepReturns(t) ==
    LET task == tasks[t]
    IN  /\ task.pc = "sleeping"
        /\ clock >= task.wake
        /\ tasks' = [tasks EXCEPT ![t].pc = "running",
                                  ![t].attempt = task.attempt + 1,
                                  ![t].invoked = task.invoked + 1,
                                  ![t].wake = None]
        /\ UNCHANGED <<default_config, circuit_breakers, retry_history, clock,
                       workload, calls_left>>
        /\ UNCHANGED fallback_vars

\* Time passes.  With no deadline ahead (no sleeping task, no open breaker
\* waiting for next_attempt_time) the handler's behaviour does not depend on
\* the time, so the clock is advanced only towards a deadline.
DeadlineAhead ==
    \/ \E t \in Tasks : tasks[t].pc = "sleeping" /\ tasks[t].wake > clock
    \/ \E id \in DOMAIN circuit_breakers :
          /\ circuit_breakers[id].state = OPEN
          /\ circuit_breakers[id].next_attempt_time > clock

Tick ==
    /\ DeadlineAhead
    /\ clock' = clock + OneSecond
    /\ UNCHANGED <<default_config, circuit_breakers, retry_history, tasks,
                   workload, calls_left>>
    /\ UNCHANGED fallback_vars

\* get_retry_stats reads the ledger and writes nothing
GetRetryStatsCall(operation_id) ==
    /\ GetRetryStats(retry_history, operation_id).total_operations >= 0
    /\ UNCHANGED vars

RetryNext ==
    \/ \E t \in Load.callers, id \in Load.operation_ids :
          ExecuteWithRetry(t, id)
    \/ \E id \in Load.operation_ids : GetRetryStatsCall(id)
    \/ \E t \in Tasks : OperationReturns(t)
    \/ \E t \in Tasks, err \in Load.errors, draw \in RandomDraws :
          OperationRaises(t, err, draw)
    \/ \E t \in Tasks : SleepReturns(t)
    \/ Tick


\* ==================================================== fallback_strategies.py
\* Prompts are sequences of words: the string is the words joined by single
\* blanks.  Vocabulary is the words used.
Vocabulary == {"What", "what", "is", "this", "2+2?", "two", "plus", "hello",
               "help", "calculate", "tax"}

\* str.lower() of a word
Lower(w) == IF w = "What" THEN "what" ELSE w

\* the keywords of _generate_template_response that are substrings of a
\* lower-cased word ('hi' is a substring of 'this')
KeywordsIn(w) ==
    CASE w = "hello" -> {"hello"}
      [] w = "this" -> {"hi"}
      [] w = "help" -> {"help"}
      [] w = "calculate" -> {"calculate"}
      [] OTHER -> {}

\* keyword in prompt_lower, for a keyword without a blank
HasKeyword(prompt, keyword) ==
    \E i \in 1 .. Len(prompt) : keyword \in KeywordsIn(Lower(prompt[i]))

\* 'what is' in prompt_lower: two neighbouring words
HasWhatIs(prompt) ==
    \E i \in 1 .. Len(prompt) - 1 :
        Lower(prompt[i]) = "what" /\ Lower(prompt[i + 1]) = "is"

\* len() of a word
CharsOf(w) ==
    CASE w \in {"is"} -> 2
      [] w \in {"two", "tax"} -> 3
      [] w \in {"What", "what", "this", "2+2?", "plus", "help"} -> 4
      [] w \in {"hello"} -> 5
      [] w \in {"calculate"} -> 9

\* len(prompt): the words and the blanks between them
RECURSIVE Length(_)
Length(prompt) ==
    IF prompt = <<>> THEN 0
    ELSE IF Len(prompt) = 1 THEN CharsOf(prompt[1])
    ELSE CharsOf(prompt[1]) + 1 + Length(Tail(prompt))

\* set(prompt.lower().split())
Words(prompt) == {Lower(prompt[i]) : i \in 1 .. Len(prompt)}

\* hashlib.sha256(prompt.encode()).hexdigest()[:16]: a digest of the exact
\* string; distinct prompts of the model have distinct digests.
HashPrompt(prompt) == [sha256 |-> prompt]

\* confidence values are fractions num / den
Frac(n, d) == [num |-> n, den |-> d]
FracGT(a, b) == a.num * b.den > b.num * a.den
FracEQ(a, b) == a.num * b.den = b.num * a.den
FracMul(a, b) == Frac(a.num * b.num, a.den * b.den)
One == Frac(1, 1)
Zero == Frac(0, 1)

\* FallbackLevel
FULL_SERVICE == "full_service"
DEGRADED_SERVICE == "degraded_service"
MINIMAL_SERVICE == "minimal_service"
CACHE_ONLY == "cache_only"
HUMAN_HANDOFF == "human_handoff"
SERVICE_DOWN == "service_down"
FallbackLevel == {FULL_SERVICE, DEGRADED_SERVICE, MINIMAL_SERVICE, CACHE_ONLY,
                  HUMAN_HANDOFF, SERVICE_DOWN}

\* A string is the pieces it is put together from; a value a primary
\* operation returns is of a type and has a text, and str(result) is the
\* string of that text.
Text(pieces) == [type |-> "str", text |-> pieces]
Str(value) == Text(value.text)
PrimaryResults == {[type |-> "int", text |-> <<"4">>], Text(<<"four">>)}

\* ------------------------------------------------------------ ResponseCache
\* The table cached_responses: its rows in rowid order, prompt_hash unique.
\* INSERT OR REPLACE deletes the row with the same prompt_hash and inserts the
\* new one; the columns it does not name take their defaults.
\* cache_response with INSERT OR IGNORE: a prompt already cached keeps its row
CacheResponse_KeepsOld(rows, prompt, response, model_type, now) ==
    IF \E i \in 1 .. Len(rows) : rows[i].prompt_hash = HashPrompt(prompt)
    THEN rows
    ELSE Append(rows,
           [prompt_hash |-> HashPrompt(prompt), original_prompt |-> prompt,
            response |-> response, model_type |-> model_type, timestamp |-> now,
            success_count |-> 0, failure_count |-> 0, confidence_score |-> One,
            tags |-> <<>>])

\* cache_response on a table without the primary key: the old row stays
CacheResponse_NoKey(rows, prompt, response, model_type, now) ==
    Append(rows,
           [prompt_hash |-> HashPrompt(prompt), original_prompt |-> prompt,
            response |-> response, model_type |-> model_type, timestamp |-> now,
            success_count |-> 0, failure_count |-> 0, confidence_score |-> One,
            tags |-> <<>>])

CacheResponse(rows, prompt, response, model_type, now) ==
    Append(SelectSeq(rows, LAMBDA r : r.prompt_hash # HashPrompt(prompt)),
           [prompt_hash |-> HashPrompt(prompt), original_prompt |-> prompt,
            response |-> response, model_type |-> model_type, timestamp |-> now,
            success_count |-> 0, failure_count |-> 0, confidence_score |-> One,
            tags |-> <<>>])

\* the value None of Optional[CachedResponse]
NoRow == [none |-> TRUE]

\* _get_exact_match
GetExactMatch(rows, prompt) ==
    IF \E i \in 1 .. Len(rows) : rows[i].prompt_hash = HashPrompt(prompt)
    THEN rows[CHOOSE i \in 1 .. Len(rows) : rows[i].prompt_hash = HashPrompt(prompt)]
    ELSE NoRow

\* Jaccard similarity of the word sets
Score(prompt, cached_prompt) ==
    LET prompt_words == Words(prompt)
        cached_words == Words(cached_prompt)
        union == prompt_words \cup cached_words
    IN  IF union # {}
        THEN Frac(Cardinality(prompt_words \cap cached_words), Cardinality(union))
        ELSE Zero

\* the loop taking the last row whose score is above the threshold
RECURSIVE SemanticScan_LastMatch(_, _, _, _, _)
SemanticScan_LastMatch(rows, prompt, i, best_match, best_score) ==
    IF i > Len(rows) THEN best_match
    ELSE LET score == Score(prompt, rows[i].original_prompt)
         IN  IF FracGT(score, Frac(6, 10))
             THEN SemanticScan_LastMatch(rows, prompt, i + 1,
                    [rows[i] EXCEPT !.confidence_score =
                        FracMul(rows[i].confidence_score, score)],
                    score)
             ELSE SemanticScan_LastMatch(rows, prompt, i + 1, best_match,
                                         best_score)

\* _get_semantic_match: the loop over the rows, (best_match, best_score)
RECURSIVE SemanticScan(_, _, _, _, _)
SemanticScan(rows, prompt, i, best_match, best_score) ==
    IF i > Len(rows) THEN best_match
    ELSE LET score == Score(prompt, rows[i].original_prompt)
         IN  IF FracGT(score, Frac(6, 10)) /\ FracGT(score, best_score)
             THEN SemanticScan(rows, prompt, i + 1,
                    [rows[i] EXCEPT !.confidence_score =
                        FracMul(rows[i].confidence_score, score)],
                    score)
             ELSE SemanticScan(rows, prompt, i + 1, best_match, best_score)

GetSemanticMatch(rows, prompt) == SemanticScan(rows, prompt, 1, NoRow, Zero)

\* original_prompt LIKE '%' || pattern || '%': LIKE does not tell the case of
\* ASCII letters apart.  The words of a prompt are joined by blanks, so the
\* pattern is in the cached prompt whenever its words are consecutive words
\* of it; a pattern that ends inside a word is not told apart here.
Like(cached_prompt, pattern) ==
    \E k \in 0 .. Len(cached_prompt) - Len(pattern) :
        \A i \in 1 .. Len(pattern) : Lower(cached_prompt[k + i]) = Lower(pattern[i])

\* _get_partial_match, for a prompt of at most 50 characters (prompt[:50] is
\* the prompt): the first row whose original_prompt contains the prompt,
\* with 0.7 of its confidence
GetPartialMatch(rows, prompt) ==
    IF \E i \in 1 .. Len(rows) : Like(rows[i].original_prompt, prompt)
    THEN LET i == CHOOSE i \in 1 .. Len(rows) :
                    /\ Like(rows[i].original_prompt, prompt)
                    /\ \A j \in 1 .. i - 1 : ~Like(rows[j].original_prompt, prompt)
         IN  [rows[i] EXCEPT !.confidence_score =
                 FracMul(rows[i].confidence_score, Frac(7, 10))]
    ELSE NoRow

\* update_cache_stats tying the confidence to the feedback
UpdateCacheStats_Rescoring(rows, prompt_hash, success) ==
    [i \in 1 .. Len(rows) |->
        IF rows[i].prompt_hash = prompt_hash
        THEN IF success
             THEN [rows[i] EXCEPT !.success_count = rows[i].success_count + 1]
             ELSE [rows[i] EXCEPT !.failure_count = rows[i].failure_count + 1,
                                  !.confidence_score =
                                      FracMul(rows[i].confidence_score, Frac(9, 10))]
        ELSE rows[i]]

\* update_cache_stats
UpdateCacheStats(rows, prompt_hash, success) ==
    [i \in 1 .. Len(rows) |->
        IF rows[i].prompt_hash = prompt_hash
        THEN IF success
             THEN [rows[i] EXCEPT !.success_count = rows[i].success_count + 1]
             ELSE [rows[i] EXCEPT !.failure_count = rows[i].failure_count + 1]
        ELSE rows[i]]

\* -------------------------------------------------------- HumanHandoffQueue
\* The table handoff_requests: its rows in rowid order, request_id unique.
AddRequest(rows, request) ==
    Append(SelectSeq(rows, LAMBDA r : r.request_id # request.request_id), request)

\* ORDER BY timestamp ASC alone
OrderedBefore_OldestFirst(a, b) == a.timestamp < b.timestamp

\* ORDER BY priority DESC, timestamp ASC: row a sorts before row b.  The
\* column timestamp holds datetime.isoformat() texts, which compare as the
\* times do.
OrderedBefore(a, b) ==
    \/ a.priority > b.priority
    \/ a.priority = b.priority /\ a.timestamp < b.timestamp

\* the orders in which SQLite may give a set of rows under that ORDER BY:
\* rows that agree in priority and timestamp come in either order
RECURSIVE Orderings(_)
Orderings(rows) ==
    IF rows = {} THEN {<<>>}
    ELSE UNION {{<<first>> \o rest : rest \in Orderings(rows \ {first})} :
                first \in {r \in rows : \A q \in rows : ~OrderedBefore(q, r)}}

\* get_pending_requests: the lists it may return, for limit >= 0
GetPendingRequests(rows, limit) ==
    LET pending == {rows[i] : i \in {j \in 1 .. Len(rows) :
                                        rows[j].status = "pending"}}
    IN  {SubSeq(o, 1, Min(limit, Len(o))) : o \in Orderings(pending)}

\* -------------------------------------------------- FallbackStrategyManager
\* _generate_template_response testing for a help request first
GenerateTemplateResponse_HelpFirst(prompt) ==
    IF \E k \in {"help", "support"} : HasKeyword(prompt, k)
    THEN "For immediate assistance, please contact our support team. We apologize for the inconvenience."
    ELSE IF \E k \in {"hello", "hi", "greeting"} : HasKeyword(prompt, k)
    THEN "Hello! I'm currently experiencing technical difficulties. Please try again later or contact support."
    ELSE IF HasWhatIs(prompt) \/ HasKeyword(prompt, "define")
    THEN "I'm unable to process your request at the moment. Please try rephrasing your question or contact support."
    ELSE IF \E k \in {"calculate", "compute"} : HasKeyword(prompt, k)
    THEN "Our calculation services are temporarily unavailable. Please try again later."
    ELSE "I'm currently experiencing technical difficulties. Your request has been noted and will be processed as soon as possible."

\* _generate_template_response
GenerateTemplateResponse(prompt) ==
    IF \E k \in {"hello", "hi", "greeting"} : HasKeyword(prompt, k)
    THEN "Hello! I'm currently experiencing technical difficulties. Please try again later or contact support."
    ELSE IF \E k \in {"help", "support"} : HasKeyword(prompt, k)
    THEN "For immediate assistance, please contact our support team. We apologize for the inconvenience."
    ELSE IF HasWhatIs(prompt) \/ HasKeyword(prompt, "define")
    THEN "I'm unable to process your request at the moment. Please try rephrasing your question or contact support."
    ELSE IF \E k \in {"calculate", "compute"} : HasKeyword(prompt, k)
    THEN "Our calculation services are temporarily unavailable. Please try again later."
    ELSE "I'm currently experiencing technical difficulties. Your request has been noted and will be processed as soon as possible."

\* context.get(key, default)
Get(context, key, default) ==
    IF key \in DOMAIN context THEN context[key] ELSE default

\* _determine_priority assigning 3 for a contract after 4 for a premium user
DeterminePriority_LastWins(context) ==
    LET p1 == IF Get(context, "user_tier", "none") = "premium" THEN 4 ELSE 1
        p2 == IF Get(context, "document_type", "none") = "contract" THEN 3 ELSE p1
    IN  IF Get(context, "urgent", "false") = "true" THEN 5 ELSE p2

\* _determine_priority
DeterminePriority(context) ==
    LET p1 == IF Get(context, "document_type", "none") = "contract"
              THEN Max(1, 3) ELSE 1
        p2 == IF Get(context, "user_tier", "none") = "premium"
              THEN Max(p1, 4) ELSE p1
    IN  IF Get(context, "urgent", "false") = "true" THEN 5 ELSE p2

\* A failure description appended to attempted_fallbacks.
Failure(stage, error) == [stage |-> stage, error |-> error]

\* str() of the exception of a sqlite3 call that fails.  Every call of
\* sqlite3.connect / execute / commit may raise; an operator of a stage
\* yields the set of ways the stage can end, one for each way its sqlite3
\* calls can end.
SqliteError == "sqlite3.OperationalError"

\* The state of one invocation between its stages: the tables and the
\* ledger, attempted_fallbacks, and once it has ended (done) how: the dict
\* returned (value), or an exception leaving the function (raised).  visited
\* is a history field: the stages entered, in order.
Frame(rows, queue, history) ==
    [done |-> FALSE, raised |-> FALSE, value |-> [none |-> TRUE],
     rows |-> rows, queue |-> queue, history |-> history,
     attempted |-> <<>>, visited |-> <<>>]

Return(frame, value) == [frame EXCEPT !.done = TRUE, !.value = value]
Enter(frame, stage) == [frame EXCEPT !.visited = Append(frame.visited, stage)]
Caught(frame, stage, error) ==
    [frame EXCEPT !.attempted = Append(frame.attempted, Failure(stage, error))]

\* Level 1 with the cache write outside the try
Level1_CacheWriteEscapes(frame, primary, prompt, context, now) ==
    LET f == Enter(frame, "primary")
    IN  IF ~primary.ok THEN {Caught(f, "primary", primary.error)}
        ELSE {[f EXCEPT !.done = TRUE, !.raised = TRUE],
              Return([f EXCEPT !.rows =
                         CacheResponse(f.rows, prompt, Str(primary.value),
                                       Get(context, "model_type", "unknown"), now)],
                     [success |-> TRUE, result |-> primary.value,
                      fallback_level |-> FULL_SERVICE, source |-> "primary",
                      confidence |-> One])}

\* Level 1 (lines 377-399); primary is how primary_operation() ended.
Level1(frame, primary, prompt, context, now) ==
    LET f == Enter(frame, "primary")
    IN  IF ~primary.ok THEN {Caught(f, "primary", primary.error)}
        ELSE {Caught(f, "primary", SqliteError),
              Return([f EXCEPT !.rows =
                         CacheResponse(f.rows, prompt, Str(primary.value),
                                       Get(context, "model_type", "unknown"), now)],
                     [success |-> TRUE, result |-> primary.value,
                      fallback_level |-> FULL_SERVICE, source |-> "primary",
                      confidence |-> One])}

\* Level 2 (lines 401-416)
Level2(frame, prompt) ==
    LET f == Enter(frame, "exact_cache")
        cached == GetExactMatch(f.rows, prompt)
    IN  {Caught(f, "exact_cache", SqliteError)} \cup
        IF cached # NoRow /\ FracGT(cached.confidence_score, Frac(8, 10))
        THEN {Caught(f, "exact_cache", SqliteError),
              Return([f EXCEPT !.rows =
                         UpdateCacheStats(f.rows, cached.prompt_hash, TRUE)],
                     [success |-> TRUE, result |-> cached.response,
                      fallback_level |-> DEGRADED_SERVICE,
                      source |-> "cache_exact",
                      confidence |-> cached.confidence_score])}
        ELSE {f}

\* Level 3 (lines 418-433)
Level3(frame, prompt) ==
    LET f == Enter(frame, "semantic_cache")
        cached == GetSemanticMatch(f.rows, prompt)
    IN  {Caught(f, "semantic_cache", SqliteError)} \cup
        IF cached # NoRow /\ FracGT(cached.confidence_score, Frac(6, 10))
        THEN {Caught(f, "semantic_cache", SqliteError),
              Return([f EXCEPT !.rows =
                         UpdateCacheStats(f.rows, cached.prompt_hash, TRUE)],
                     [success |-> TRUE,
                      result |-> Text(<<"[Similar response] ">>
                                      \o cached.response.text),
                      fallback_level |-> MINIMAL_SERVICE,
                      source |-> "cache_semantic",
                      confidence |-> cached.confidence_score])}
        ELSE {f}

\* Level 4 answering at the level of the exact lookup
Level4_Degraded(frame, prompt) ==
    LET f == Enter(frame, "template")
        template_response == GenerateTemplateResponse(prompt)
    IN  IF template_response # ""
        THEN {Return(f, [success |-> TRUE,
                         result |-> Text(<<template_response>>),
                         fallback_level |-> DEGRADED_SERVICE,
                         source |-> "template", confidence |-> Frac(3, 10)])}
        ELSE {f}

\* Level 4 (lines 435-449); a non-empty string is true
Level4(frame, prompt) ==
    LET f == Enter(frame, "template")
        template_response == GenerateTemplateResponse(prompt)
    IN  IF template_response # ""
        THEN {Return(f, [success |-> TRUE,
                         result |-> Text(<<template_response>>),
                         fallback_level |-> MINIMAL_SERVICE,
                         source |-> "template", confidence |-> Frac(3, 10)])}
        ELSE {f}

\* HumanHandoffRequest(...) of lines 453-461; int(time.time()) is the whole
\* seconds of now
HandoffRequest(operation_id, prompt, attempted, context, now) ==
    [request_id |-> [operation_id |-> operation_id, seconds |-> now \div OneSecond],
     original_prompt |-> prompt, failure_reason |-> attempted,
     attempted_fallbacks |-> attempted, timestamp |-> now,
     priority |-> DeterminePriority(context), context |-> context,
     status |-> "pending"]

\* Level 5 (lines 451-475)
Level5(frame, operation_id, prompt, context, now) ==
    LET f == Enter(frame, "human_handoff")
        handoff_request == HandoffRequest(operation_id, prompt, f.attempted, context, now)
    IN  {Caught(f, "human_handoff", SqliteError),
         Return([f EXCEPT !.queue = AddRequest(f.queue, handoff_request)],
                [success |-> FALSE,
                 result |-> [type |-> "str",
                             text |-> <<"Request queued for human review (ID: ",
                                        ")">>,
                             id |-> handoff_request.request_id],
                 fallback_level |-> HUMAN_HANDOFF, source |-> "human_queue",
                 confidence |-> Zero,
                 handoff_id |-> handoff_request.request_id])}

\* prompt[:100] + "..." if len(prompt) > 100 else prompt: the first chars
\* characters of the prompt, and what is put behind them
RecordedPrompt(prompt) ==
    IF Length(prompt) > 100
    THEN [prefix_of |-> prompt, chars |-> 100, then |-> "..."]
    ELSE [prefix_of |-> prompt, chars |-> Length(prompt), then |-> ""]

\* _record_failure that records nothing
ManagerRecordFailure_Skipped(history, operation_id, prompt, attempted_fallbacks) ==
    history

\* FallbackStrategyManager._record_failure; the entry's timestamp is not
\* modelled
ManagerRecordFailure(history, operation_id, prompt, attempted_fallbacks) ==
    Append(history,
           [operation_id |-> operation_id, prompt |-> RecordedPrompt(prompt),
            attempted_fallbacks |-> attempted_fallbacks,
            result |-> "complete_failure"])

\* the call of _record_failure and the last return (lines 477-487)
Level6(frame, operation_id, prompt) ==
    LET f == Enter(frame, "failure")
    IN  {Return([f EXCEPT !.history =
                    ManagerRecordFailure(f.history, operation_id, prompt,
                                         f.attempted)],
                [success |-> FALSE,
                 result |-> Text(<<"All fallback strategies failed">>),
                 fallback_level |-> SERVICE_DOWN, source |-> "failure",
                 confidence |-> Zero, attempted_fallbacks |-> f.attempted])}

\* execute_with_fallbacks from the end of primary_operation() on: the ways
\* the call can end.  A frame that has ended skips the later stages.
Cascade(frame, primary, operation_id, prompt, context, now) ==
    LET s1 == Level1(frame, primary, prompt, context, now)
        s2 == UNION {IF f.done THEN {f} ELSE Level2(f, prompt) : f \in s1}
        s3 == UNION {IF f.done THEN {f} ELSE Level3(f, prompt) : f \in s2}
        s4 == UNION {IF f.done THEN {f} ELSE Level4(f, prompt) : f \in s3}
        s5 == UNION {IF f.done THEN {f}
                     ELSE Level5(f, operation_id, prompt, context, now) : f \in s4}
    IN  UNION {IF f.done THEN {f} ELSE Level6(f, operation_id, prompt) : f \in s5}

\* ------------------------------------------------ execute_with_fallbacks
MaxFallbackCalls == 2
MaxSeconds == 1

Prompts == {<<"What", "is", "2+2?">>, <<"what", "is", "2+2?", "tax">>,
            <<"hello">>, <<"tax">>}
EmptyContext == [key \in {} |-> ""]
Contexts == {EmptyContext, [model_type |-> "fast", urgent |-> "true"]}

\* how primary_operation() ended
Returned(value) == [ok |-> TRUE, value |-> value]
Raised(error) == [ok |-> FALSE, error |-> error]

\* The locals of one execute_with_fallbacks call.  pc is "primary" at
\* await primary_operation(); "returned" / "raised" = how the call ended.
\* visited and primary (how primary_operation() ended) are history fields.
IdleFallbackTask ==
    [pc |-> "idle", operation_id |-> "none", prompt |-> <<>>,
     context |-> EmptyContext, value |-> [none |-> TRUE], attempted |-> <<>>,
     visited |-> <<>>, primary |-> Raised("none")]

\* __init__ of the manager, its cache and its queue, on empty databases
FallbackInit ==
    /\ cached_responses = <<>>
    /\ handoff_requests = <<>>
    /\ fallback_history = <<>>
    /\ fallback_tasks = [t \in Tasks |-> IdleFallbackTask]
    /\ fallback_calls_left = MaxFallbackCalls

\* Lines 374-380: up to await primary_operation().
ExecuteWithFallbacks(t, operation_id, prompt, context) ==
    /\ fallback_tasks[t].pc \in {"idle", "returned", "raised"}
    /\ fallback_calls_left > 0
    /\ fallback_calls_left' = fallback_calls_left - 1
    /\ fallback_tasks' = [fallback_tasks EXCEPT ![t] =
          [IdleFallbackTask EXCEPT !.pc = "primary",
                                   !.operation_id = operation_id,
                                   !.prompt = prompt, !.context = context]]
    /\ UNCHANGED <<cached_responses, handoff_requests, fallback_history, clock>>
    /\ UNCHANGED handler_vars

\* Lines 380-487: primary_operation() has ended; the rest of the call runs
\* without suspending.
PrimaryEnds(t, primary) ==
    LET call == fallback_tasks[t]
    IN  /\ call.pc = "primary"
        /\ \E f \in Cascade(Frame(cached_responses, handoff_requests,
                                  fallback_history),
                            primary, call.operation_id, call.prompt,
                            call.context, clock) :
           /\ cached_responses' = f.rows
           /\ handoff_requests' = f.queue
           /\ fallback_history' = f.history
           /\ fallback_tasks' = [fallback_tasks EXCEPT ![t] =
                 [call EXCEPT !.pc = IF f.raised THEN "raised" ELSE "returned",
                              !.value = f.value, !.attempted = f.attempted,
                              !.visited = f.visited, !.primary = primary]]
        /\ UNCHANGED <<fallback_calls_left, clock>>
        /\ UNCHANGED handler_vars

PrimaryReturns(t, value) == PrimaryEnds(t, Returned(value))
PrimaryRaises(t, error) == PrimaryEnds(t, Raised(error))

\* time passes
FallbackTick ==
    /\ clock < MaxSeconds * OneSecond
    /\ clock' = clock + OneSecond
    /\ UNCHANGED fallback_vars
    /\ UNCHANGED handler_vars

\* a handler nobody calls
RetryIdle ==
    /\ workload = "none"
    /\ default_config = DemoConfig
    /\ calls_left = 0
    /\ circuit_breakers = [id \in {} |-> CircuitBreakerState]
    /\ retry_history = <<>>
    /\ clock = 0
    /\ tasks = [t \in Tasks |-> IdleTask]

FallbackNext ==
    \/ \E t \in Tasks, prompt \in Prompts, context \in Contexts :
          ExecuteWithFallbacks(t, "op_a", prompt, context)
    \/ \E t \in Tasks, value \in PrimaryResults : PrimaryReturns(t, value)
    \/ \E t \in Tasks : PrimaryRaises(t, "boom")
    \/ FallbackTick

\* a handler under its workload, beside a manager nobody calls
Init == RetryInit /\ FallbackInit
Spec == Init /\ [][RetryNext]_vars

\* a manager under its calls, beside a handler nobody calls
InitFallback == RetryIdle /\ FallbackInit
SpecFallback == InitFallback /\ [][FallbackNext]_vars

\* ---------------------------------------- the template synthesis as a hook
\* Stage 4 awaits self._generate_template_response(prompt), declared to give
\* Optional[str], and provides for the three ways the await can end: a
\* non-empty string (line 438), None or an empty string (the if fails), an
\* exception (line 448).  The method of the class gives a non-empty string
\* for every str prompt; Level4AnyTemplate is stage 4 for every way the await
\* can end, so its outcomes include those of Level4.
Level4AnyTemplate(frame, prompt) ==
    Level4(frame, prompt)
        \cup {Enter(frame, "template"),
              Caught(Enter(frame, "template"), "template", "template failed")}

\* the cascade going on to the semantic lookup after the exact lookup answered
CascadeAnyTemplate_GoesOn(frame, primary, operation_id, prompt, context, now) ==
    LET s1 == Level1(frame, primary, prompt, context, now)
        s2 == UNION {IF f.done THEN {f} ELSE Level2(f, prompt) : f \in s1}
        s3 == UNION {IF f.done /\ f.value.source # "cache_exact" THEN {f}
                     ELSE Level3(f, prompt) : f \in s2}
        s4 == UNION {IF f.done THEN {f} ELSE Level4AnyTemplate(f, prompt) : f \in s3}
        s5 == UNION {IF f.done THEN {f}
                     ELSE Level5(f, operation_id, prompt, context, now) : f \in s4}
    IN  UNION {IF f.done THEN {f} ELSE Level6(f, operation_id, prompt) : f \in s5}

\* Cascade with stage 4 for every way the await can end
CascadeAnyTemplate(frame, primary, operation_id, prompt, context, now) ==
    LET s1 == Level1(frame, primary, prompt, context, now)
        s2 == UNION {IF f.done THEN {f} ELSE Level2(f, prompt) : f \in s1}
        s3 == UNION {IF f.done THEN {f} ELSE Level3(f, prompt) : f \in s2}
        s4 == UNION {IF f.done THEN {f} ELSE Level4AnyTemplate(f, prompt) : f \in s3}
        s5 == UNION {IF f.done THEN {f}
                     ELSE Level5(f, operation_id, prompt, context, now) : f \in s4}
    IN  UNION {IF f.done THEN {f} ELSE Level6(f, operation_id, prompt) : f \in s5}

\* the contexts of the handoff: every combination of the keys that
\* _determine_priority reads, with a value it tests for or another one
HandoffContexts ==
    {[key \in keys |-> CASE key = "document_type" -> doc
                         [] key = "user_tier" -> tier
                         [] key = "urgent" -> urgent] :
        keys \in SUBSET {"document_type", "user_tier", "urgent"},
        doc \in {"contract", "invoice"}, tier \in {"premium", "basic"},
        urgent \in {"true", "false"}}

\* the contexts of the calls: one for each priority _determine_priority gives
CallContexts ==
    {EmptyContext, [document_type |-> "contract"],
     [document_type |-> "contract", user_tier |-> "premium"], [urgent |-> "true"]}

\* PrimaryEnds with stage 4 for every way the await can end
PrimaryEndsAnyTemplate(t, primary) ==
    LET call == fallback_tasks[t]
    IN  /\ call.pc = "primary"
        /\ \E f \in CascadeAnyTemplate(Frame(cached_responses, handoff_requests,
                                             fallback_history),
                                       primary, call.operation_id, call.prompt,
                                       call.context, clock) :
           /\ cached_responses' = f.rows
           /\ handoff_requests' = f.queue
           /\ fallback_history' = f.history
           /\ fallback_tasks' = [fallback_tasks EXCEPT ![t] =
                 [call EXCEPT !.pc = IF f.raised THEN "raised" ELSE "returned",
                              !.value = f.value, !.attempted = f.attempted,
                              !.visited = f.visited, !.primary = primary]]
        /\ UNCHANGED <<fallback_calls_left, clock>>
        /\ UNCHANGED handler_vars

\* a prompt of 109 characters
LongPrompt == [i \in 1 .. 11 |-> "calculate"]

\* the prompt of a call: the long one for the urgent calls, a short one for
\* the others
PromptOf(context) ==
    IF "urgent" \in DOMAIN context THEN LongPrompt ELSE <<"hello">>

\* one caller, whose calls follow one another
NextAnyTemplate ==
    \/ \E context \in CallContexts :
          ExecuteWithFallbacks("t1", "op_a", PromptOf(context), context)
    \/ PrimaryEndsAnyTemplate("t1", Returned(Text(<<"four">>)))
    \/ PrimaryEndsAnyTemplate("t1", Raised("boom"))
    \/ FallbackTick

\* the retry handler under the workloads of the retry policy
InitPolicy ==
    /\ workload \in {w.name : w \in PolicyWorkloads}
    /\ default_config \in Load.configs
    /\ calls_left = Load.calls
    /\ circuit_breakers = [id \in {} |-> CircuitBreakerState]
    /\ retry_history = <<>>
    /\ clock = 0
    /\ tasks = [t \in Tasks |-> IdleTask]
    /\ FallbackInit

SpecPolicy == InitPolicy /\ [][RetryNext]_vars

\* a manager whose template synthesis may end in every way, under its calls
SpecAnyTemplate == InitFallback /\ [][NextAnyTemplate]_vars

\* ------------------------------------------- a cache left by earlier runs
\* response_cache.db outlives the process: _init_database creates the table
\* only if it does not exist, so a manager can start on the rows that
\* cache_response wrote in earlier runs.
WarmCaches ==
    LET a == <<"What", "is", "2+2?">>
        b == <<"what", "is", "2+2?", "tax">>
        put(rows, prompt, text) ==
            CacheResponse(rows, prompt, Text(<<text>>), "unknown", 0)
    IN  {<<>>, put(<<>>, a, "4"), put(<<>>, b, "tax on 4"),
         put(put(<<>>, a, "4"), b, "tax on 4"),
         put(put(<<>>, b, "tax on 4"), a, "4")}

\* prompts near the cached ones: the first differs from a cached prompt in
\* case only, the second has 3 of 5 words in common with one cached prompt
\* and 4 of 5 with the other
WarmPrompts == {<<"what", "is", "2+2?">>,
                <<"what", "is", "2+2?", "tax", "plus">>, <<"tax">>}

\* prompts far from the cached ones, with the keywords of one or two of the
\* templates; 'hi' is in 'this'
TemplatePrompts == {<<"hello", "help">>, <<"what", "is", "this">>,
                    <<"help", "calculate">>, <<"calculate", "what", "is", "tax">>,
                    <<"calculate", "tax">>}

InitWarmCache ==
    /\ RetryIdle
    /\ cached_responses \in WarmCaches
    /\ handoff_requests = <<>>
    /\ fallback_history = <<>>
    /\ fallback_tasks = [t \in Tasks |-> IdleFallbackTask]
    /\ fallback_calls_left = MaxFallbackCalls

\* one caller, whose calls follow one another
NextWarmCache ==
    \/ \E prompt \in WarmPrompts \cup TemplatePrompts :
          ExecuteWithFallbacks("t1", "op_a", prompt, EmptyContext)
    \/ PrimaryReturns("t1", Text(<<"four">>))
    \/ PrimaryRaises("t1", "boom")
    \/ FallbackTick

SpecWarmCache == InitWarmCache /\ [][NextWarmCache]_vars

\* ------------------------------------------- the handoff queue on its own
\* The queue's two methods called directly, as the example's
\* show_human_handoff_queue lists the queue: requests of two operations, of
\* priority 1 or 5, pending or already assigned to somebody.
MaxLimit == 3

QueueOperations == {"op_a", "op_b"}

QueueContexts ==
    {EmptyContext, [urgent |-> "true"]}

QueueStatuses == {"pending", "assigned"}

AddRequestCall(operation_id, context, status) ==
    /\ handoff_requests' =
            AddRequest(handoff_requests,
                       [HandoffRequest(operation_id, <<"hello">>, <<"primary">>,
                                       context, clock)
                            EXCEPT !.status = status])
    /\ UNCHANGED <<cached_responses, fallback_history, fallback_tasks,
                   fallback_calls_left>>
    /\ UNCHANGED retry_vars

\* a listing reads the table and writes nothing
GetPendingRequestsCall(limit) ==
    /\ GetPendingRequests(handoff_requests, limit) # {}
    /\ UNCHANGED vars

NextQueue ==
    \/ \E operation_id \in QueueOperations, context \in QueueContexts,
          status \in QueueStatuses :
            AddRequestCall(operation_id, context, status)
    \/ \E limit \in 0 .. MaxLimit : GetPendingRequestsCall(limit)
    \/ FallbackTick

SpecQueue == InitFallback /\ [][NextQueue]_vars

\* ------------------------------------------------- the cache on its own
\* The cache's methods called directly, in any order: cache_response with
\* two prompts and two responses, update_cache_stats with the hashes of
\* these prompts and of a prompt never cached, and the lookups.  The last
\* call is kept in fallback_tasks["t1"]: pc names the method, prompt and
\* value are its arguments, primary.ok tells whether it returned, and
\* primary.before is a history field, the table when the call began.
MaxCacheCalls == 4

CachePrompts == {<<"What", "is", "2+2?">>, <<"what", "is", "2+2?", "tax">>}
CacheResponses == {Text(<<"4">>), Text(<<"four">>)}
CacheHashes == {HashPrompt(prompt) : prompt \in CachePrompts \cup {<<"hello">>}}

CacheCall(method, prompt, value, ok) ==
    [IdleFallbackTask EXCEPT !.pc = method, !.prompt = prompt, !.value = value,
                             !.primary = [ok |-> ok, error |-> "none",
                                          before |-> cached_responses]]

\* __init__ of a cache on an empty database
InitCache ==
    /\ RetryIdle
    /\ cached_responses = <<>>
    /\ handoff_requests = <<>>
    /\ fallback_history = <<>>
    /\ fallback_tasks = [t \in Tasks |-> IdleFallbackTask]
    /\ fallback_calls_left = MaxCacheCalls

\* cache_response: the row is written, or a sqlite3 call raises and the
\* table is as before
CacheResponseCall(prompt, response) ==
    /\ fallback_calls_left > 0
    /\ fallback_calls_left' = fallback_calls_left - 1
    /\ \/ /\ cached_responses' =
                 CacheResponse(cached_responses, prompt, response, "unknown", clock)
          /\ fallback_tasks' = [fallback_tasks EXCEPT !["t1"] =
                 CacheCall("cache_response", prompt, response, TRUE)]
       \/ /\ cached_responses' = cached_responses
          /\ fallback_tasks' = [fallback_tasks EXCEPT !["t1"] =
                 CacheCall("cache_response", prompt, response, FALSE)]
    /\ UNCHANGED <<handoff_requests, fallback_history, clock>>
    /\ UNCHANGED handler_vars

\* update_cache_stats
UpdateCacheStatsCall(prompt_hash, success) ==
    /\ fallback_calls_left > 0
    /\ fallback_calls_left' = fallback_calls_left - 1
    /\ cached_responses' = UpdateCacheStats(cached_responses, prompt_hash, success)
    /\ fallback_tasks' = [fallback_tasks EXCEPT !["t1"] =
           CacheCall("update_cache_stats", prompt_hash.sha256,
                     [success |-> success], TRUE)]
    /\ UNCHANGED <<handoff_requests, fallback_history, clock>>
    /\ UNCHANGED handler_vars

\* get_cached_response: a lookup reads the table and writes nothing; the
\* confidence it scales is that of the object it returns
GetCachedResponseCall(prompt) ==
    /\ {GetExactMatch(cached_responses, prompt),
        GetSemanticMatch(cached_responses, prompt),
        GetPartialMatch(cached_responses, prompt)} # {}
    /\ UNCHANGED vars

NextCache ==
    \/ \E prompt \in CachePrompts, response \in CacheResponses :
          CacheResponseCall(prompt, response)
    \/ \E prompt_hash \in CacheHashes, success \in BOOLEAN :
          UpdateCacheStatsCall(prompt_hash, success)
    \/ \E prompt \in CachePrompts : GetCachedResponseCall(prompt)
    \/ FallbackTick

SpecCache == InitCache /\ [][NextCache]_vars

\* ============================================================ properties
\* Vocabulary of the properties below.
Breaker(id) == circuit_breakers[id]
HasBreaker(id) == id \in DOMAIN circuit_breakers
IsOpenAndEarly(id) ==
    /\ HasBreaker(id)
    /\ Breaker(id).state = OPEN
    /\ clock < Breaker(id).next_attempt_time

\* this step is the start of a call of task t for operation id
CallStarts(t, id) ==
    /\ tasks'[t].call_no # tasks[t].call_no
    /\ tasks'[t].operation_id = id

\* this step appends one record with this result for operation id
Records(id, result) ==
    /\ Len(retry_history') = Len(retry_history) + 1
    /\ retry_history'[Len(retry_history')].operation_id = id
    /\ retry_history'[Len(retry_history')].result = result

\* the records of operation id, in order
RecordsOf(history, id) == SelectSeq(history, LAMBDA r : r.operation_id = id)

\* the number of failure records at the end of a sequence of records
RECURSIVE TrailingFailures(_)
TrailingFailures(records) ==
    IF records = <<>> \/ records[Len(records)].result # "failure" THEN 0
    ELSE 1 + TrailingFailures(SubSeq(records, 1, Len(records) - 1))

\* C1: a call for an operation id whose breaker is open before
\* next_attempt_time ends at once with an error, without invoking the
\* operation; it appends no record and leaves every breaker as it was.
C1_RejectedCallLeavesNoTrace ==
    [][\A t \in Tasks, id \in OperationIds :
          (CallStarts(t, id) /\ IsOpenAndEarly(id))
          => /\ tasks'[t].pc = "raised"
             /\ tasks'[t].rejected
             /\ tasks'[t].invoked = 0
             /\ tasks'[t].attempt = 0
             /\ retry_history' = retry_history
             /\ circuit_breakers' = circuit_breakers]_retry_vars

\* a call was refused while the breaker stays open before next_attempt_time,
\* after the failures that opened it were recorded
C1_Witness ==
    \E t \in Tasks :
        /\ tasks[t].rejected
        /\ tasks[t].pc = "raised"
        /\ IsOpenAndEarly(tasks[t].operation_id)
        /\ Len(retry_history) >= default_config.failure_threshold

\* C2: the error of a call refused by the breaker is of a kind of its own
\* (CircuitOpenError), never NonRetryableError or RetryableError, the kinds
\* the operation itself raises.
C2_RejectionHasItsOwnErrorKind ==
    \A t \in Tasks :
        (tasks[t].pc = "raised" /\ tasks[t].rejected)
        => tasks[t].last_exception.type \notin {"NonRetryableError", "RetryableError"}

\* C3: a closed breaker opens exactly at the recorded failure that brings
\* failure_count to failure_threshold; while closed, failure_count is the
\* number of failures recorded for the id since its last recorded success.
C3_OpensExactlyAtThreshold ==
    [][\A id \in OperationIds :
          LET before == IF HasBreaker(id) THEN Breaker(id) ELSE CircuitBreakerState
              after == circuit_breakers'[id]
          IN  (id \in DOMAIN circuit_breakers' /\ before.state = CLOSED) =>
                /\ after.state = OPEN
                   => /\ Records(id, "failure")
                      /\ after.failure_count = before.failure_count + 1
                      /\ after.failure_count = default_config.failure_threshold
                      /\ after.next_attempt_time = clock + default_config.recovery_timeout
                /\ (Records(id, "failure")
                    /\ before.failure_count + 1 >= default_config.failure_threshold)
                   => after.state = OPEN
                /\ after.state = CLOSED
                   => /\ after.failure_count < default_config.failure_threshold
                      /\ after.failure_count =
                            TrailingFailures(RecordsOf(retry_history', id))
      ]_retry_vars

\* failure_threshold = 2: two failing single-attempt calls opened the breaker
\* and the third call, made before next_attempt_time, was refused
C3_Witness ==
    /\ default_config.failure_threshold = 2
    /\ default_config.max_attempts = 1
    /\ retry_history = <<FailureRecord("op_a", 1, Exception("RetryableError", "boom", None, 1)),
                         FailureRecord("op_a", 1, Exception("RetryableError", "boom", None, 1))>>
    /\ IsOpenAndEarly("op_a")
    /\ tasks["t1"].rejected /\ tasks["t1"].call_no = 3

\* C4: a success recorded while the breaker is closed leaves failure_count 0.
C4_SuccessWhileClosedClearsFailures ==
    [][\A id \in OperationIds :
          (HasBreaker(id) /\ Breaker(id).state = CLOSED /\ Records(id, "success"))
          => /\ circuit_breakers'[id].failure_count = 0
             /\ circuit_breakers'[id].state = CLOSED]_retry_vars

\* a success followed a failure of the same id under a closed breaker, and
\* the count is back at 0
C4_Witness ==
    \E id \in OperationIds, i \in 1 .. Len(retry_history) - 1 :
        /\ i + 1 = Len(retry_history)
        /\ retry_history[i].operation_id = id
        /\ retry_history[i].result = "failure"
        /\ retry_history[i + 1].operation_id = id
        /\ retry_history[i + 1].result = "success"
        /\ HasBreaker(id)
        /\ Breaker(id).state = CLOSED
        /\ Breaker(id).failure_count = 0
        /\ Breaker(id).next_attempt_time = None

\* C5: a half-open breaker closes only at a recorded success that brings
\* success_count to success_threshold, with failure_count 0 and the last
\* success_threshold records of the id all successes; a failure recorded in
\* half_open reopens it with next_attempt_time = now + recovery_timeout; and
\* success_count is 0 each time half_open is entered.
C5_HalfOpenClosesAfterThresholdSuccesses ==
    [][\A id \in OperationIds :
          HasBreaker(id) =>
            LET before == Breaker(id)
                after == circuit_breakers'[id]
                mine == RecordsOf(retry_history', id)
                st == default_config.success_threshold
            IN  /\ (before.state = HALF_OPEN /\ after.state = CLOSED)
                   => /\ Records(id, "success")
                      /\ after.success_count = before.success_count + 1
                      /\ after.success_count >= st
                      /\ after.failure_count = 0
                      /\ Len(mine) >= st
                      /\ \A i \in (Len(mine) - st + 1) .. Len(mine) :
                            mine[i].result = "success"
                /\ (before.state = HALF_OPEN /\ Records(id, "success")
                    /\ before.success_count + 1 < st)
                   => after.state = HALF_OPEN
                /\ (before.state = HALF_OPEN /\ Records(id, "failure"))
                   => /\ after.state = OPEN
                      /\ after.next_attempt_time =
                            clock + default_config.recovery_timeout
                /\ (before.state # HALF_OPEN /\ after.state = HALF_OPEN)
                   => after.success_count = 0
      ]_retry_vars

\* a breaker that was opened, became half_open and closed again after two
\* successes (success_threshold = 2)
C5_Witness ==
    \E id \in OperationIds :
        /\ HasBreaker(id)
        /\ default_config.success_threshold = 2
        /\ Breaker(id).state = CLOSED
        /\ Breaker(id).success_count = 2
        /\ Breaker(id).failure_count = 0
        /\ Breaker(id).next_attempt_time # None

\* C6: a breaker leaves open only when a call for its id starts at a time
\* now >= next_attempt_time: that call is admitted, the state becomes
\* half_open and success_count 0; and every such call does this.
C6_OpenLeavesOnlyThroughHalfOpen ==
    [][\A id \in OperationIds :
          (HasBreaker(id) /\ Breaker(id).state = OPEN) =>
            LET after == circuit_breakers'[id]
                due == clock >= Breaker(id).next_attempt_time
                admitted(t) == /\ CallStarts(t, id)
                               /\ tasks'[t].pc = "running"
                               /\ tasks'[t].invoked = 1
                               /\ ~tasks'[t].rejected
            IN  /\ after.state # OPEN
                   => /\ after.state = HALF_OPEN
                      /\ after.success_count = 0
                      /\ due
                      /\ \E t \in Tasks : admitted(t)
                /\ \A t \in Tasks :
                      (CallStarts(t, id) /\ due)
                      => (admitted(t) /\ after.state = HALF_OPEN
                          /\ after.success_count = 0)
      ]_retry_vars

\* the probe call admitted exactly at next_attempt_time is running and the
\* breaker is half_open
C6_Witness ==
    \E t \in Tasks :
        LET id == tasks[t].operation_id
        IN  /\ tasks[t].pc = "running"
            /\ tasks[t].invoked = 1
            /\ HasBreaker(id)
            /\ Breaker(id).state = HALF_OPEN
            /\ Breaker(id).success_count = 0
            /\ clock = Breaker(id).next_attempt_time

\* the exception has no usable retry_after hint
Hintless(e) == e.retry_after = None \/ e.retry_after = 0

\* the delays 1 s, 2 s, 4 s, 8 s
DemoDelays == <<OneSecond, 2 * OneSecond, 4 * OneSecond, 8 * OneSecond>>

\* C7: a call invokes the operation at most max_attempts times and ends at the
\* first success; a call that fails on a retryable error has invoked it
\* exactly max_attempts times with max_attempts - 1 delays in between (none
\* after the last attempt); with base_delay 1, multiplier 2, no jitter and 5
\* attempts the delays are 1, 2, 4, 8 seconds.
C7_AttemptsAndWaits ==
    \A t \in Tasks :
        LET task == tasks[t]
            config == default_config
        IN  /\ task.invoked <= config.max_attempts
            /\ task.invoked = (IF task.rejected THEN 0 ELSE task.attempt)
            /\ task.pc = "returned"
               => /\ task.result = task.invoked
                  /\ Len(task.errors) = task.invoked - 1
                  /\ Len(task.delays) = task.invoked - 1
            /\ (task.pc = "raised" /\ ~task.rejected
                /\ ShouldRetry(task.last_exception, task.attempt, config))
               => /\ task.invoked = config.max_attempts
                  /\ Len(task.errors) = config.max_attempts
                  /\ Len(task.delays) = config.max_attempts - 1
            /\ (task.pc = "raised" /\ ~task.rejected /\ config = DemoConfig
                /\ \A i \in 1 .. Len(task.errors) :
                      ShouldRetry(task.errors[i], i, config) /\ Hintless(task.errors[i]))
               => task.delays = DemoDelays

\* the five-attempt call of the demonstration failed five times
C7_Witness ==
    \E t \in Tasks :
        /\ default_config = DemoConfig
        /\ tasks[t].pc = "raised"
        /\ tasks[t].invoked = 5
        /\ tasks[t].delays = DemoDelays
        /\ Len(retry_history) = 5

\* C8: a call that fails after at least one invocation raises the very
\* exception object raised by its last invocation.
C8_RaisesLastError ==
    \A t \in Tasks :
        (tasks[t].pc = "raised" /\ tasks[t].invoked >= 1)
        => /\ Len(tasks[t].errors) = tasks[t].invoked
           /\ tasks[t].last_exception = tasks[t].errors[tasks[t].invoked]
           /\ tasks[t].last_exception.raised_at = tasks[t].invoked

\* a call failed at its third attempt, after two errors of another kind
C8_Witness ==
    \E t \in Tasks :
        /\ tasks[t].pc = "raised"
        /\ tasks[t].invoked = 3
        /\ tasks[t].errors[1].type # tasks[t].errors[3].type
        /\ tasks[t].last_exception.type = tasks[t].errors[3].type

\* C9: within a call, an attempt that fails with NonRetryableError is the last
\* one, and an attempt that fails with RetryableError is followed by another
\* attempt (at once or after the sleep) unless it was attempt max_attempts.
C9_NonRetryableStopsRetryableContinues ==
    \A t \in Tasks :
        LET task == tasks[t]
            n == Len(task.errors)
        IN  /\ \A i \in 1 .. n :
                  task.errors[i].type = "NonRetryableError"
                  => (i = n /\ task.pc = "raised" /\ task.invoked = n)
            /\ \A i \in 1 .. n :
                  (task.errors[i].type = "RetryableError"
                   /\ i < default_config.max_attempts)
                  => \/ task.invoked > i
                     \/ (i = n /\ task.pc = "sleeping")

\* a call stopped at a NonRetryableError of its first attempt although two
\* more attempts were allowed, and another one retried a RetryableError
C9_Witness ==
    \E t \in Tasks :
        /\ default_config.max_attempts = 3
        /\ tasks[t].pc = "raised"
        /\ Len(tasks[t].errors) = 2
        /\ tasks[t].errors[1].type = "RetryableError"
        /\ tasks[t].errors[2].type = "NonRetryableError"

\* C10: execute_with_fallbacks never raises to its caller: however the
\* primary operation, the cache write, the lookups, the template synthesis
\* and the enqueue end, the call returns a dict in which success, result,
\* fallback_level, source and confidence are set.
ResultKeys == {"success", "result", "fallback_level", "source", "confidence"}

StageOrder == <<"primary", "exact_cache", "semantic_cache", "template",
                "human_handoff", "failure">>
StageOfSource(source) ==
    CASE source = "primary" -> "primary"
      [] source = "cache_exact" -> "exact_cache"
      [] source = "cache_semantic" -> "semantic_cache"
      [] source = "template" -> "template"
      [] source = "human_queue" -> "human_handoff"
      [] source = "failure" -> "failure"

\* C11: a call of execute_with_fallbacks enters the stages in the order
\* primary, exact cache, semantic cache, template, human handoff, failure:
\* the stages it has entered are the first n of that order for some n of 1
\* to 6 (so none twice and none after a later one), and the stage that gave
\* the result is the last one entered.
C11_StagesInOrderUntilFirstSuccess ==
    \A t \in Tasks :
        fallback_tasks[t].pc = "returned" =>
            LET visited == fallback_tasks[t].visited
            IN  /\ Len(visited) \in 1 .. 6
                /\ visited = SubSeq(StageOrder, 1, Len(visited))
                /\ StageOfSource(fallback_tasks[t].value.source)
                      = visited[Len(visited)]

\* a call went through all six stages
C11_Witness ==
    \E t \in Tasks :
        /\ fallback_tasks[t].pc = "returned"
        /\ fallback_tasks[t].visited = StageOrder
        /\ fallback_tasks[t].value.source = "failure"

\* the rank of a level in service quality, and the place of a stage in the
\* cascade
Rank(level) ==
    CASE level = FULL_SERVICE -> 5
      [] level = DEGRADED_SERVICE -> 4
      [] level = MINIMAL_SERVICE -> 3
      [] level = CACHE_ONLY -> 2
      [] level = HUMAN_HANDOFF -> 1
      [] level = SERVICE_DOWN -> 0
StageIndex(stage) == CHOOSE i \in 1 .. 6 : StageOrder[i] = stage

\* the ways the call of task t, waiting for its primary operation, can end
WaysToEnd(t) ==
    UNION {CascadeAnyTemplate(Frame(cached_responses, handoff_requests,
                                    fallback_history),
                              primary, fallback_tasks[t].operation_id,
                              fallback_tasks[t].prompt, fallback_tasks[t].context,
                              clock) :
           primary \in {Returned(value) : value \in PrimaryResults}
                           \cup {Raised("boom")}}

\* C12: of two results a call can end with, the one given by the later stage
\* of the cascade never carries a fallback_level of higher service quality
\* than the one given by the earlier stage.
C12_LevelNeverRisesAlongCascade ==
    \A t \in Tasks :
        fallback_tasks[t].pc = "primary" =>
            \A f, g \in WaysToEnd(t) :
                StageIndex(StageOfSource(f.value.source))
                        < StageIndex(StageOfSource(g.value.source))
                    => Rank(f.value.fallback_level) >= Rank(g.value.fallback_level)

\* a call in flight that each of the six stages can answer
C12_Witness ==
    \E t \in Tasks :
        /\ fallback_tasks[t].pc = "primary"
        /\ {StageOfSource(f.value.source) : f \in WaysToEnd(t)}
              = {StageOrder[i] : i \in 1 .. 6}

\* the row of the cache for a prompt, NoRow if there is none
CachedFor(prompt) == GetExactMatch(cached_responses, prompt)

\* C13: whenever the primary operation succeeded, the call returns
\* success = true with the primary's result, FULL_SERVICE, source "primary"
\* and confidence 1.0, has entered no later stage, and the cache holds the
\* prompt with the response, tagged with the model_type of the context.
C13_PrimarySuccessIsReturnedAndCached ==
    \A t \in Tasks :
        LET call == fallback_tasks[t]
        IN  call.pc = "returned" /\ call.primary.ok =>
                /\ call.value.success = TRUE
                /\ call.value.result = call.primary.value
                /\ call.value.fallback_level = FULL_SERVICE
                /\ call.value.source = "primary"
                /\ FracEQ(call.value.confidence, One)
                /\ call.visited = <<"primary">>
                /\ CachedFor(call.prompt) # NoRow

\* this step is the end of a call of task t
CallEnds(t) ==
    /\ fallback_tasks[t].pc = "primary"
    /\ fallback_tasks'[t].pc = "returned"

\* a stage of the ended call of task t raised
StageRaised(t, stage) ==
    \E i \in 1 .. Len(fallback_tasks'[t].attempted) :
        fallback_tasks'[t].attempted[i].stage = stage

\* C14: a call that ends with the primary's result leaves a row which the
\* exact lookup of the same prompt finds, with that response (as a string)
\* and confidence 1.0.  A call whose primary operation raised and whose
\* exact stage did not raise returns the cached response of its prompt with
\* DEGRADED_SERVICE, source "cache_exact" and the stored confidence (above
\* 0.8) if the prompt is cached, and does not answer from the exact stage if
\* the prompt is not cached.
C14_ExactRoundTrip ==
    [][\A t \in Tasks :
          LET call == fallback_tasks'[t]
              cached == CachedFor(call.prompt)
          IN  CallEnds(t) =>
                /\ call.value.source = "primary" =>
                      LET row == GetExactMatch(cached_responses', call.prompt)
                      IN  /\ row # NoRow
                          /\ row.response = Str(call.value.result)
                          /\ FracEQ(row.confidence_score, One)
                /\ ~call.primary.ok /\ ~StageRaised(t, "exact_cache") =>
                      IF cached # NoRow
                      THEN /\ call.value.success = TRUE
                           /\ call.value.result = cached.response
                           /\ call.value.fallback_level = DEGRADED_SERVICE
                           /\ call.value.source = "cache_exact"
                           /\ FracEQ(call.value.confidence, cached.confidence_score)
                           /\ FracGT(call.value.confidence, Frac(8, 10))
                      ELSE call.value.source # "cache_exact"]_vars

\* a call answered from the exact stage with the string of the number an
\* earlier call's primary operation returned
C14_Witness ==
    \E t \in Tasks :
        /\ fallback_tasks[t].pc = "returned"
        /\ ~fallback_tasks[t].primary.ok
        /\ fallback_tasks[t].value.source = "cache_exact"
        /\ fallback_tasks[t].value.result = Text(<<"4">>)

\* the Jaccard score of the prompt of task t's call against row i of the
\* cache, and row i being accepted as the answer of the ended call of task t
ScoreOfRow(t, i) ==
    Score(fallback_tasks'[t].prompt, cached_responses[i].original_prompt)
AnswersFromRow(t, i) ==
    /\ fallback_tasks'[t].value.result
          = Text(<<"[Similar response] ">> \o cached_responses[i].response.text)
    /\ FracEQ(fallback_tasks'[t].value.confidence,
              FracMul(cached_responses[i].confidence_score, ScoreOfRow(t, i)))

\* C15: a call whose primary operation raised, whose prompt is not cached
\* and whose cache stages did not raise answers from the semantic stage
\* exactly when some row scores above 0.6; the answer is then success = true,
\* MINIMAL_SERVICE, source "cache_semantic", the response of a row of
\* maximum score marked "[Similar response]", with the stored confidence
\* times the score.  No call answers from a row that scores 0.6 or less.
C15_SemanticPicksBestAboveThreshold ==
    [][\A t \in Tasks :
          LET call == fallback_tasks'[t]
              above == {i \in 1 .. Len(cached_responses) :
                           FracGT(ScoreOfRow(t, i), Frac(6, 10))}
              best == {i \in 1 .. Len(cached_responses) :
                          \A j \in 1 .. Len(cached_responses) :
                              ~FracGT(ScoreOfRow(t, j), ScoreOfRow(t, i))}
          IN  CallEnds(t) =>
                /\ /\ ~call.primary.ok
                   /\ CachedFor(call.prompt) = NoRow
                   /\ ~StageRaised(t, "exact_cache")
                   /\ ~StageRaised(t, "semantic_cache")
                   => IF above # {}
                      THEN /\ call.value.success = TRUE
                           /\ call.value.fallback_level = MINIMAL_SERVICE
                           /\ call.value.source = "cache_semantic"
                           /\ \E i \in best : AnswersFromRow(t, i)
                      ELSE call.value.source # "cache_semantic"
                /\ call.value.source = "cache_semantic"
                   => \E i \in above : AnswersFromRow(t, i)]_vars

\* a call was answered from the row that scores 1 although an earlier row
\* scores 3/4, and another from the row that scores 4/5 while the other row
\* scores 3/5
C15_Witness ==
    /\ Len(cached_responses) = 2
    /\ cached_responses[1].original_prompt = <<"what", "is", "2+2?", "tax">>
    /\ \E t \in Tasks :
          /\ fallback_tasks[t].pc = "returned"
          /\ fallback_tasks[t].prompt = <<"what", "is", "2+2?">>
          /\ fallback_tasks[t].value.source = "cache_semantic"
          /\ fallback_tasks[t].value.result = Text(<<"[Similar response] ", "4">>)
          /\ FracEQ(fallback_tasks[t].value.confidence, One)

\* the intents in the order of the claim, the keywords of each, and the
\* canned message of each; 5 is the generic fallback
IntentMatches(prompt, intent) ==
    CASE intent = 1 -> \E k \in {"hello", "hi", "greeting"} : HasKeyword(prompt, k)
      [] intent = 2 -> \E k \in {"help", "support"} : HasKeyword(prompt, k)
      [] intent = 3 -> HasWhatIs(prompt) \/ HasKeyword(prompt, "define")
      [] intent = 4 -> \E k \in {"calculate", "compute"} : HasKeyword(prompt, k)
      [] intent = 5 -> TRUE
CannedMessage ==
    <<"Hello! I'm currently experiencing technical difficulties. Please try again later or contact support.",
      "For immediate assistance, please contact our support team. We apologize for the inconvenience.",
      "I'm unable to process your request at the moment. Please try rephrasing your question or contact support.",
      "Our calculation services are temporarily unavailable. Please try again later.",
      "I'm currently experiencing technical difficulties. Your request has been noted and will be processed as soon as possible.">>
FirstIntent(prompt) ==
    CHOOSE i \in 1 .. 5 :
        IntentMatches(prompt, i) /\ \A j \in 1 .. i - 1 : ~IntentMatches(prompt, j)

\* C16: a call whose primary operation raised, whose prompt is not cached,
\* which no row matches with a score above 0.6 and whose cache stages did
\* not raise returns success = true, MINIMAL_SERVICE, source "template",
\* confidence 0.3 and the canned message of the first intent, in the order
\* greeting, help, definition, calculation, generic, that the prompt matches;
\* every answer from the template stage is that message.
C16_TemplateOfFirstMatchingIntent ==
    [][\A t \in Tasks :
          LET call == fallback_tasks'[t]
              above == {i \in 1 .. Len(cached_responses) :
                           FracGT(ScoreOfRow(t, i), Frac(6, 10))}
              canned ==
                  /\ call.value.success = TRUE
                  /\ call.value.fallback_level = MINIMAL_SERVICE
                  /\ call.value.result
                        = Text(<<CannedMessage[FirstIntent(call.prompt)]>>)
                  /\ FracEQ(call.value.confidence, Frac(3, 10))
          IN  CallEnds(t) =>
                /\ /\ ~call.primary.ok
                   /\ CachedFor(call.prompt) = NoRow
                   /\ above = {}
                   /\ ~StageRaised(t, "exact_cache")
                   /\ ~StageRaised(t, "semantic_cache")
                   => call.value.source = "template" /\ canned
                /\ call.value.source = "template" => canned]_vars

\* a prompt with 'hello' and 'help' got the greeting after its primary
\* operation raised and both lookups missed
C16_Witness ==
    \E t \in Tasks :
        /\ fallback_tasks[t].pc = "returned"
        /\ fallback_tasks[t].prompt = <<"hello", "help">>
        /\ fallback_tasks[t].attempted = <<Failure("primary", "boom")>>
        /\ fallback_tasks[t].value.source = "template"
        /\ fallback_tasks[t].value.result = Text(<<CannedMessage[1]>>)

\* what the keys of a context contribute to the priority, and the greatest
\* of the contributions
Contributions(context) ==
    {1} \cup (IF Get(context, "document_type", "none") = "contract" THEN {3} ELSE {})
        \cup (IF Get(context, "user_tier", "none") = "premium" THEN {4} ELSE {})
        \cup (IF Get(context, "urgent", "false") = "true" THEN {5} ELSE {})
Greatest(numbers) == CHOOSE n \in numbers : \A k \in numbers : k <= n

\* C17: the priority of a handoff request is the greatest of 1, 3 for a
\* contract, 4 for a premium user and 5 for an urgent request: for every
\* context it is in 1 .. 5, it is 5 when urgent is set and 1 when none of
\* the three applies, and every request in the queue carries the priority
\* of its context.
C17_PriorityIsGreatestContribution ==
    /\ \A context \in HandoffContexts :
          /\ DeterminePriority(context) = Greatest(Contributions(context))
          /\ DeterminePriority(context) \in 1 .. 5
          /\ Get(context, "urgent", "false") = "true"
                => DeterminePriority(context) = 5
          /\ Contributions(context) = {1} => DeterminePriority(context) = 1
    /\ \A i \in 1 .. Len(handoff_requests) :
          handoff_requests[i].priority
              = Greatest(Contributions(handoff_requests[i].context))

\* the request of a premium user about a contract is in the queue with
\* priority 4
C17_Witness ==
    \E i \in 1 .. Len(handoff_requests) :
        /\ handoff_requests[i].context
              = [document_type |-> "contract", user_tier |-> "premium"]
        /\ handoff_requests[i].priority = 4


\* the pending rows of the table
PendingRows == {handoff_requests[i] : i \in {j \in 1 .. Len(handoff_requests) :
                    handoff_requests[j].status = "pending"}}

\* the requests of a listing
Listed(listing) == {listing[i] : i \in 1 .. Len(listing)}

\* C18: whatever was enqueued, a listing with a limit holds only pending
\* requests of the table, each once and at most limit of them (all of them
\* when the limit allows), in the order of falling priority and, within one
\* priority, of rising timestamp; and no pending request left out sorts
\* before a listed one.  So a priority-5 request is listed ahead of a
\* priority-1 request enqueued earlier.
C18_PendingListedByPriorityThenAge ==
    \A limit \in 0 .. MaxLimit :
        \A listing \in GetPendingRequests(handoff_requests, limit) :
            /\ Listed(listing) \subseteq PendingRows
            /\ Len(listing) <= limit
            /\ Len(listing) = Min(limit, Cardinality(PendingRows))
            /\ Cardinality(Listed(listing)) = Len(listing)
            /\ \A i, j \in 1 .. Len(listing) :
                    i < j =>
                        /\ listing[i].priority >= listing[j].priority
                        /\ listing[i].priority = listing[j].priority
                                => listing[i].timestamp <= listing[j].timestamp
            /\ \A left \in PendingRows \ Listed(listing) :
                    \A r \in Listed(listing) :
                        /\ left.priority <= r.priority
                        /\ left.priority = r.priority
                                => left.timestamp >= r.timestamp

\* a priority-1 request, then an assigned one, then a priority-5 request a
\* second later, then another priority-1 request: a listing of two holds the
\* priority-5 request first and the older priority-1 request second
C18_Witness ==
    /\ Len(handoff_requests) >= 3
    /\ \E i, j, k \in 1 .. Len(handoff_requests) :
            /\ i < j
            /\ handoff_requests[i].priority = 1
            /\ handoff_requests[i].status = "pending"
            /\ handoff_requests[j].priority = 5
            /\ handoff_requests[j].status = "pending"
            /\ handoff_requests[i].timestamp < handoff_requests[j].timestamp
            /\ handoff_requests[k].status = "assigned"
            /\ handoff_requests[k].priority = 5
            /\ Cardinality(PendingRows) = 3
            /\ GetPendingRequests(handoff_requests, 2)
                    = {<<handoff_requests[j], handoff_requests[i]>>}


\* the call of task t has returned after its primary operation raised and
\* neither cache stage answered
AutomatedLookupsMissed(t) ==
    LET call == fallback_tasks[t]
    IN  /\ call.pc = "returned"
        /\ ~call.primary.ok
        /\ call.value.source \notin {"cache_exact", "cache_semantic"}

\* C19: a call whose primary operation raised and whose cache lookups missed,
\* with a context of priority 3 or more (contract, premium or urgent), ends
\* as a handoff: success = false, HUMAN_HANDOFF, source "human_queue",
\* confidence 0.0 and the handoff_id of a request now in the queue.
C19_HighPriorityIsHandedOff ==
    \A t \in Tasks :
        LET call == fallback_tasks[t]
        IN  AutomatedLookupsMissed(t) /\ DeterminePriority(call.context) >= 3 =>
                /\ call.value.fallback_level = HUMAN_HANDOFF
                /\ call.value.source = "human_queue"
                /\ call.value.success = FALSE
                /\ FracEQ(call.value.confidence, Zero)
                /\ "handoff_id" \in DOMAIN call.value
                /\ \E k \in 1 .. Len(handoff_requests) :
                        handoff_requests[k].request_id = call.value.handoff_id

\* what the shipped template stage makes of it: with text prompts no call
\* ends as a handoff or as a complete failure, and the queue and the failure
\* ledger stay empty
HandoffIsNeverReached ==
    /\ handoff_requests = <<>>
    /\ fallback_history = <<>>
    /\ \A t \in Tasks :
            fallback_tasks[t].pc = "returned" =>
                fallback_tasks[t].value.fallback_level
                    \notin {HUMAN_HANDOFF, SERVICE_DOWN}


\* this step ends a call of task t as a complete failure
EndsServiceDown(t) ==
    CallEnds(t) /\ fallback_tasks'[t].value.fallback_level = SERVICE_DOWN

C21_OnlyServiceDownSignalsFailure ==
    \A t \in Tasks :
        LET call == fallback_tasks[t]
        IN  call.pc = "returned" =>
                /\ call.value.success = FALSE
                        => call.value.fallback_level = SERVICE_DOWN
                /\ call.value.fallback_level # SERVICE_DOWN
                        => call.value.success = TRUE


\* the breaker of operation id, or a fresh one if the id has none yet
BreakerOrNew(breakers, id) ==
    IF id \in DOMAIN breakers THEN breakers[id] ELSE CircuitBreakerState

\* C22: no update is lost, however the calls of two callers for one id
\* interleave: a step changes the ledger only by appending one record; every
\* failed attempt appends one failure record with its attempt number; every
\* recorded failure raises the failure_count of its id by exactly 1, and
\* leaves the breaker open if the count has reached failure_threshold; every
\* other step leaves failure_count as it is or sets it to 0.  So
\* failure_count is the number of failures recorded since it was last 0.
C22_NoLostUpdates ==
    [][/\ retry_history' # retry_history =>
             /\ Len(retry_history') = Len(retry_history) + 1
             /\ SubSeq(retry_history', 1, Len(retry_history)) = retry_history
       /\ \A t \in Tasks :
             Len(tasks'[t].errors) = Len(tasks[t].errors) + 1 =>
                /\ Records(tasks[t].operation_id, "failure")
                /\ retry_history'[Len(retry_history')].attempt = tasks[t].attempt
       /\ \A id \in OperationIds :
             LET before == BreakerOrNew(circuit_breakers, id)
                 after == BreakerOrNew(circuit_breakers', id)
             IN  IF Records(id, "failure") /\ default_config.enable_circuit_breaker
                 THEN /\ id \in DOMAIN circuit_breakers'
                      /\ after.failure_count = before.failure_count + 1
                      /\ after.failure_count >= default_config.failure_threshold
                            => after.state = OPEN
                 ELSE after.failure_count \in {before.failure_count, 0}
      ]_retry_vars

\* failure_threshold = 2: the first caller failed once and sleeps before its
\* second attempt; meanwhile the second caller was admitted for the same id
\* and failed at the same instant: both failures are counted and the breaker
\* is open
C22_Witness ==
    /\ default_config.failure_threshold = 2
    /\ tasks["t1"].operation_id = tasks["t2"].operation_id
    /\ tasks["t1"].pc = "sleeping" /\ Len(tasks["t1"].errors) = 1
    /\ tasks["t2"].pc = "raised" /\ Len(tasks["t2"].errors) = 1
    /\ ~tasks["t2"].rejected
    /\ clock = 0
    /\ Len(retry_history) = 2
    /\ Breaker(tasks["t1"].operation_id).failure_count = 2
    /\ Breaker(tasks["t1"].operation_id).state = OPEN


\* this step changes the breaker of operation id, or creates it
BreakerChanges(id) ==
    BreakerOrNew(circuit_breakers', id) # BreakerOrNew(circuit_breakers, id)
    \/ (id \in DOMAIN circuit_breakers') # (id \in DOMAIN circuit_breakers)

\* C23: breakers of different ids are independent: a step of a call for one
\* id (its gate, a recorded success, a recorded failure, the end of its
\* sleep) leaves the breaker of every other id as it was, and a call for an
\* id is refused exactly if the breaker of that id is open before its
\* next_attempt_time, whatever the breakers of the other ids are.
C23_BreakersAreIndependent ==
    [][/\ \A t \in Tasks, id \in OperationIds :
             (tasks'[t] # tasks[t] /\ tasks'[t].operation_id # id)
             => ~BreakerChanges(id)
       /\ \A id \in OperationIds :
             BreakerChanges(id) =>
                \E t \in Tasks : tasks'[t] # tasks[t] /\ tasks'[t].operation_id = id
       /\ \A t \in Tasks, id \in OperationIds :
             (CallStarts(t, id) /\ default_config.enable_circuit_breaker)
             => (tasks'[t].rejected <=> IsOpenAndEarly(id))
      ]_retry_vars

\* the breaker of op_a is open and not yet due, and a call for op_b made
\* after it opened was admitted and has succeeded; op_b's breaker is a fresh
\* one
C23_Witness ==
    \E t \in Tasks :
        /\ IsOpenAndEarly("op_a")
        /\ tasks[t].operation_id = "op_b"
        /\ tasks[t].pc = "returned"
        /\ tasks[t].call_no > default_config.failure_threshold
        /\ HasBreaker("op_b")
        /\ Breaker("op_b") = CircuitBreakerState
        /\ RecordsOf(retry_history, "op_b")
              = <<SuccessRecord("op_b", 1)>>
        /\ Len(retry_history) = default_config.failure_threshold + 1


\* task t waits between two attempts and its wait is not over
Waiting(t) == tasks[t].pc = "sleeping" /\ clock < tasks[t].wake

\* C24: a backoff wait suspends only the call that retries.  While a call
\* waits, every other caller can go on: a caller with calls to make can
\* start a call for any id, a call whose operation is running can have it
\* return or raise and record the outcome, and a call whose own wait is
\* over can go on to its next attempt.
C24_WaitSuspendsOnlyItsCall ==
    \A t \in Tasks :
        Waiting(t) =>
            \A u \in Tasks \ {t} :
                /\ (u \in Load.callers /\ calls_left > 0
                    /\ tasks[u].pc \in {"idle", "returned", "raised"})
                   => \A id \in Load.operation_ids : ENABLED ExecuteWithRetry(u, id)
                /\ tasks[u].pc = "running"
                   => /\ ENABLED OperationReturns(u)
                      /\ \A err \in Load.errors :
                            ENABLED OperationRaises(u, err, 0)
                /\ (tasks[u].pc = "sleeping" /\ clock >= tasks[u].wake)
                   => ENABLED SleepReturns(u)

\* the first caller failed once for op_a and still waits; after that the
\* second caller made a call for the same id, which was admitted, succeeded
\* and set the breaker's failure_count back to 0
C24_Witness ==
    /\ Waiting("t1")
    /\ tasks["t1"].operation_id = "op_a" /\ tasks["t1"].call_no = 1
    /\ tasks["t2"].operation_id = "op_a" /\ tasks["t2"].call_no = 2
    /\ tasks["t2"].pc = "returned"
    /\ retry_history = <<FailureRecord("op_a", 1, Exception("RetryableError", "boom", None, 1)),
                         SuccessRecord("op_a", 1)>>
    /\ Breaker("op_a").failure_count = 0
    /\ Breaker("op_a").last_failure_time = clock


\* the delay of the strategy for attempt n, before the limit and the jitter
NominalDelay(n, config) ==
    CASE config.strategy = IMMEDIATE -> 0
      [] config.strategy = FIXED_DELAY -> config.base_delay
      [] config.strategy = LINEAR_BACKOFF -> config.base_delay * n
      [] config.strategy = EXPONENTIAL_BACKOFF ->
            config.base_delay * Pow(config.backoff_multiplier, n - 1)

\* |a - b|
Distance(a, b) == IF a >= b THEN a - b ELSE b - a

Denylisted == {"ValueError", "TypeError", "AttributeError"}

\* a retry_on_ flag that is switched off matches the error
MatchedByDisabledFlag(e, config) ==
    \/ e.type = "TimeoutError" /\ ~config.retry_on_timeout
    \/ e.type = "ConnectionError" /\ ~config.retry_on_connection_error
    \/ e.message = "parse error" /\ ~config.retry_on_parse_error
    \/ e.message = "empty response" /\ ~config.retry_on_empty_response

\* the i-th attempt of the call of task t was followed by another one
Retried(t, i) == tasks[t].invoked > i \/ (i = Len(tasks[t].errors) /\ tasks[t].pc = "sleeping")

\* C26: an attempt that fails with a ValueError, a TypeError or an
\* AttributeError is never followed by another attempt, whatever the message
\* of the error and the retry_on_ flags; an attempt before the last that
\* fails with an error which is neither one of these, nor a
\* NonRetryableError, nor matched by a flag that is off, is followed by
\* another attempt.
C26_DenylistedNeverRetried ==
    \A t \in Tasks :
        \A i \in 1 .. Len(tasks[t].errors) :
            LET e == tasks[t].errors[i]
            IN  /\ e.type \in Denylisted => ~Retried(t, i)
                /\ (e.type \notin Denylisted \cup {"NonRetryableError"}
                    /\ ~MatchedByDisabledFlag(e, default_config)
                    /\ i < default_config.max_attempts)
                   => Retried(t, i)


\* C27: when an attempt fails with a RetryableError that carries a
\* retry_after hint and another attempt follows, the wait before it is
\* exactly retry_after, whatever the hint (0 included) and the strategy
\* (immediate included).
C27_HintIsTheWait ==
    \A t \in Tasks :
        \A n \in 1 .. Len(tasks[t].delays) :
            LET e == tasks[t].errors[n]
            IN  (e.type = "RetryableError" /\ e.retry_after # None)
                => tasks[t].delays[n] = e.retry_after


\* this step is the end of an invocation of the operation by task t
InvocationEnds(t) == tasks[t].pc = "running" /\ tasks'[t] # tasks[t]

\* the number of records of the ledger for operation id, of those with a
\* result, and of those with an attempt number
CountOf(history, id) ==
    Cardinality({i \in 1 .. Len(history) : history[i].operation_id = id})
CountResult(history, id, result) ==
    Cardinality({i \in 1 .. Len(history) :
                    history[i].operation_id = id /\ history[i].result = result})
CountAttempt(history, id, k) ==
    Cardinality({i \in 1 .. Len(history) :
                    history[i].operation_id = id /\ history[i].attempt = k})

\* C28: the ledger is append-only.  The end of an invocation of the operation
\* appends exactly one record, a success or a failure with the id and the
\* attempt number (from 1) of the invocation; every other step, a refused
\* call among them, leaves the ledger as it is.  After each append
\* get_retry_stats reports for the id of the new record (the records of the
\* other ids are as before) total_operations = successes + failures = the
\* number of records of the id, and retry_distribution holds, for the
\* attempt numbers k > 1 that occur and for no others, the number of records
\* with attempt k.
C28_LedgerIsAppendOnly ==
    [][/\ \A t \in Tasks :
             InvocationEnds(t) =>
                LET record == retry_history'[Len(retry_history')]
                IN  /\ Len(retry_history') = Len(retry_history) + 1
                    /\ SubSeq(retry_history', 1, Len(retry_history)) = retry_history
                    /\ record.operation_id = tasks[t].operation_id
                    /\ record.attempt = tasks[t].attempt
                    /\ record.attempt = tasks[t].invoked
                    /\ record.attempt >= 1
                    /\ record.result = (IF tasks'[t].pc = "returned"
                                        THEN "success" ELSE "failure")
       /\ (\A t \in Tasks : ~InvocationEnds(t)) => retry_history' = retry_history
       /\ retry_history' # retry_history =>
             LET id == retry_history'[Len(retry_history')].operation_id
                 successes == CountResult(retry_history', id, "success")
                 failures == CountResult(retry_history', id, "failure")
                 retried == {k \in 2 .. default_config.max_attempts :
                                CountAttempt(retry_history', id, k) > 0}
             IN  /\ CountOf(retry_history', id) = successes + failures
                 /\ GetRetryStats(retry_history', id) =
                       [total_operations |-> successes + failures,
                        successes |-> successes, failures |-> failures,
                        success_rate |-> [num |-> successes,
                                          den |-> successes + failures],
                        retry_distribution |->
                           [k \in retried |-> CountAttempt(retry_history', id, k)],
                        operation_id |-> id]
      ]_retry_vars

\* op_a was invoked four times in three calls, a fourth call was refused:
\* four records, two of them of second attempts
C28_Witness ==
    /\ GetRetryStats(retry_history, "op_a").total_operations = 4
    /\ GetRetryStats(retry_history, "op_a").successes = 1
    /\ GetRetryStats(retry_history, "op_a").failures = 3
    /\ GetRetryStats(retry_history, "op_a").retry_distribution = (2 :> 2)
    /\ tasks["t1"].rejected
    /\ tasks["t1"].call_no = 4


\* the stages named by a list of attempted fallbacks, in its order
StagesOf(attempted) == [i \in 1 .. Len(attempted) |-> attempted[i].stage]

\* the stages that can answer, in cascade order
AnsweringStages == <<"primary", "exact_cache", "semantic_cache", "template">>

\* a list of stages follows the cascade order and names no stage twice
InCascadeOrder(stages) ==
    \A i, j \in 1 .. Len(stages) :
        i < j => StageIndex(stages[i]) < StageIndex(stages[j])

\* C29: the stages that failed are listed in attempted_fallbacks once each
\* and in cascade order; the list stored in an enqueued handoff request, and
\* the one returned with SERVICE_DOWN, has an entry for each of the stages
\* primary, exact cache, semantic cache and template, none of which
\* produced the answer.
C29_EveryUnansweringStageIsListed ==
    \A t \in Tasks :
        LET call == fallback_tasks[t]
        IN  call.pc = "returned" =>
                /\ InCascadeOrder(StagesOf(call.attempted))
                /\ call.value.source = "human_queue" =>
                      \E k \in 1 .. Len(handoff_requests) :
                          /\ handoff_requests[k].request_id = call.value.handoff_id
                          /\ StagesOf(handoff_requests[k].attempted_fallbacks)
                                = AnsweringStages
                /\ call.value.source = "failure" =>
                      StagesOf(SelectSeq(call.value.attempted_fallbacks,
                                         LAMBDA a : a.stage # "human_handoff"))
                        = AnsweringStages

\* what holds of the lists: a stage is listed exactly if it raised, so the
\* stages listed are in cascade order, among the stages entered, and never
\* the stage that answered
AttemptedAreTheStagesThatRaised ==
    \A t \in Tasks :
        LET call == fallback_tasks[t]
            listed == StagesOf(call.attempted)
        IN  call.pc = "returned" =>
                /\ InCascadeOrder(listed)
                /\ \A i \in 1 .. Len(listed) :
                      /\ \E j \in 1 .. Len(call.visited) : call.visited[j] = listed[i]
                      /\ StageOfSource(call.value.source) # listed[i]
                            \/ (listed[i] = "primary" /\ call.primary.ok)


\* the call of task t found its primary operation failing and no lookup of
\* the cache raised
OnlyPrimaryFailed(t) ==
    /\ fallback_tasks[t].pc = "returned"
    /\ ~fallback_tasks[t].primary.ok
    /\ StagesOf(fallback_tasks[t].attempted) = <<"primary">>

\* of the lookups of the cache, only the partial match finds a row for the
\* prompt
OnlyPartialMatchAnswers(rows, prompt) ==
    /\ Length(prompt) <= 50
    /\ GetExactMatch(rows, prompt) = NoRow
    /\ GetSemanticMatch(rows, prompt) = NoRow
    /\ GetPartialMatch(rows, prompt) # NoRow

\* C30: after the primary operation has failed, the cache is asked with
\* three lookup strategies before the templates: a prompt that only the
\* third strategy (the partial match) finds in the cache is answered from
\* the cache, not by a template.
C30_ThirdStrategyServesFromCache ==
    \A t \in Tasks :
        (/\ OnlyPrimaryFailed(t)
         /\ OnlyPartialMatchAnswers(cached_responses, fallback_tasks[t].prompt))
            => fallback_tasks[t].value.source \notin {"template", "human_queue", "failure"}

\* what holds: where neither the exact nor the semantic lookup finds a row,
\* the answer is a template's, whatever else the cache holds
TwoLookupsThenTemplate ==
    \A t \in Tasks :
        (/\ OnlyPrimaryFailed(t)
         /\ GetExactMatch(cached_responses, fallback_tasks[t].prompt) = NoRow
         /\ GetSemanticMatch(cached_responses, fallback_tasks[t].prompt) = NoRow)
            => /\ fallback_tasks[t].value.source = "template"
               /\ fallback_tasks[t].visited
                     = <<"primary", "exact_cache", "semantic_cache", "template">>


\* the last direct call of the cache
CacheCalled == fallback_tasks["t1"]

\* the entries of a table for a prompt
EntriesFor(rows, prompt) ==
    {rows[i] : i \in {j \in 1 .. Len(rows) : rows[j].original_prompt = prompt}}

\* the prompts a table has entries for
PromptsIn(rows) == {rows[i].original_prompt : i \in 1 .. Len(rows)}

\* C31: after any sequence of cache_response calls the table holds at most
\* one entry for a prompt and for a fingerprint; a cache_response of a
\* prompt, cached before or not, leaves one entry for it, which holds the
\* response just given and is what an exact lookup returns, and leaves the
\* entries of every other prompt as they were.
C31_OneEntryPerPromptUpsert ==
    /\ \A i, j \in 1 .. Len(cached_responses) :
          i # j => /\ cached_responses[i].prompt_hash # cached_responses[j].prompt_hash
                   /\ cached_responses[i].original_prompt
                         # cached_responses[j].original_prompt
    /\ (CacheCalled.pc = "cache_response" /\ CacheCalled.primary.ok) =>
          /\ Cardinality(EntriesFor(cached_responses, CacheCalled.prompt)) = 1
          /\ GetExactMatch(cached_responses, CacheCalled.prompt).response
                = CacheCalled.value
          /\ \A prompt \in (PromptsIn(cached_responses)
                               \cup PromptsIn(CacheCalled.primary.before))
                             \ {CacheCalled.prompt} :
                EntriesFor(cached_responses, prompt)
                    = EntriesFor(CacheCalled.primary.before, prompt)

\* a prompt cached with one response is cached again with the other, beside
\* the entry of another prompt
C31_Witness ==
    /\ CacheCalled.pc = "cache_response"
    /\ CacheCalled.primary.ok
    /\ Len(CacheCalled.primary.before) = 2
    /\ \E old \in EntriesFor(CacheCalled.primary.before, CacheCalled.prompt) :
          old.response # CacheCalled.value
    /\ Len(cached_responses) = 2
    /\ GetExactMatch(cached_responses, CacheCalled.prompt).response
          = CacheCalled.value


\* row `after` is row `before` with the counter of the feedback raised by one
CountedOnce(before, after, success) ==
    /\ after.success_count = before.success_count + (IF success THEN 1 ELSE 0)
    /\ after.failure_count = before.failure_count + (IF success THEN 0 ELSE 1)
    /\ after.confidence_score = before.confidence_score
    /\ after.response = before.response
    /\ after.original_prompt = before.original_prompt
    /\ after.prompt_hash = before.prompt_hash
    /\ after.model_type = before.model_type
    /\ after.timestamp = before.timestamp
    /\ after.tags = before.tags

\* every stored entry has confidence_score 1.0
StoredConfidenceIsOne ==
    \A i \in 1 .. Len(cached_responses) : cached_responses[i].confidence_score = One

\* C32: update_cache_stats(hash, success) raises success_count (if success)
\* or failure_count (if not) of the entry with that hash by one and changes
\* nothing else: not the other counter, the confidence_score or the response
\* of that entry, no other entry, and nothing at all for a hash the table
\* does not hold.  Whatever is cached, reported and looked up, every stored
\* entry has confidence_score 1.0.
C32_FeedbackCountsAndNothingElse ==
    /\ StoredConfidenceIsOne
    /\ CacheCalled.pc = "update_cache_stats" =>
          LET before == CacheCalled.primary.before
              hash == HashPrompt(CacheCalled.prompt)
          IN  /\ Len(cached_responses) = Len(before)
              /\ \A i \in 1 .. Len(before) :
                    IF before[i].prompt_hash = hash
                    THEN CountedOnce(before[i], cached_responses[i],
                                     CacheCalled.value.success)
                    ELSE cached_responses[i] = before[i]

\* failure reported for an entry that has a success counted, beside another
\* entry
C32_Witness ==
    /\ CacheCalled.pc = "update_cache_stats"
    /\ ~CacheCalled.value.success
    /\ Len(cached_responses) = 2
    /\ \E i \in 1 .. 2 :
          /\ cached_responses[i].prompt_hash = HashPrompt(CacheCalled.prompt)
          /\ cached_responses[i].success_count = 1
          /\ cached_responses[i].failure_count = 1
          /\ CacheCalled.primary.before[i].failure_count = 0

\* feedback for a hash the table does not hold
FeedbackForUnknownHash ==
    /\ CacheCalled.pc = "update_cache_stats"
    /\ cached_responses # <<>>
    /\ \A i \in 1 .. Len(cached_responses) :
          cached_responses[i].prompt_hash # HashPrompt(CacheCalled.prompt)


\* C38: a cache_response of a prompt that is cached already leaves the
\* entry's success_count and failure_count as they were before the call.
C38_RecacheKeepsCounters ==
    (CacheCalled.pc = "cache_response" /\ CacheCalled.primary.ok) =>
        \A old \in EntriesFor(CacheCalled.primary.before, CacheCalled.prompt) :
            \A new \in EntriesFor(cached_responses, CacheCalled.prompt) :
                /\ new.success_count = old.success_count
                /\ new.failure_count = old.failure_count

\* what holds: the entry written by cache_response has both counters at 0
\* and confidence_score 1.0, whatever the entry it replaces had
RecacheStartsAfresh ==
    (CacheCalled.pc = "cache_response" /\ CacheCalled.primary.ok) =>
        \A new \in EntriesFor(cached_responses, CacheCalled.prompt) :
            /\ new.success_count = 0
            /\ new.failure_count = 0
            /\ new.confidence_score = One


\* this step invokes the operation for task t: a first attempt or a later one
Invokes(t) ==
    /\ tasks'[t].pc = "running"
    /\ tasks[t].pc # "running" \/ tasks'[t].attempt # tasks[t].attempt

\* after this step the breaker of the operation id of task t is open and
\* next_attempt_time is still ahead
OpenAndEarlyAfter(t) ==
    LET id == tasks'[t].operation_id
    IN  /\ id \in DOMAIN circuit_breakers'
        /\ circuit_breakers'[id].state = OPEN
        /\ clock' < circuit_breakers'[id].next_attempt_time

\* C33: the operation is never invoked for an operation id whose breaker is
\* open with now < next_attempt_time, be it the first attempt of a call or a
\* later one, be the breaker opened by the call's own failures or by those
\* of another call.
C33_NeverInvokedWhileOpen ==
    [][\A t \in Tasks : Invokes(t) => ~OpenAndEarlyAfter(t)]_vars

\* what holds: the first attempt of a call is not invoked while the breaker
\* of its id is open with next_attempt_time ahead
FirstAttemptIsGated ==
    [][\A t \in Tasks :
          (Invokes(t) /\ tasks'[t].attempt = 1) => ~OpenAndEarlyAfter(t)]_vars


\* the breaker of id is open after this step and was not before it
Opens(id) ==
    /\ id \in DOMAIN circuit_breakers'
    /\ circuit_breakers'[id].state = OPEN
    /\ id \in DOMAIN circuit_breakers => circuit_breakers[id].state # OPEN

\* this step records a failure of an invocation for id
RecordsFailure(id) ==
    /\ Len(retry_history') = Len(retry_history) + 1
    /\ retry_history'[Len(retry_history')].operation_id = id
    /\ retry_history'[Len(retry_history')].result = "failure"

\* C34: under one configuration, a closed breaker has fewer failures counted
\* than failure_threshold, an open or half-open one has at least
\* failure_threshold, and an open one has next_attempt_time set: it is set
\* when a recorded failure opens the breaker, to the time of that failure
\* plus recovery_timeout, and stays as set while the breaker is open.
C34_BreakerStateMatchesCounters ==
    [][\A id \in DOMAIN circuit_breakers' :
          LET breaker == circuit_breakers'[id]
          IN  /\ breaker.state = CLOSED =>
                    breaker.failure_count < default_config.failure_threshold
              /\ breaker.state \in {OPEN, HALF_OPEN} =>
                    breaker.failure_count >= default_config.failure_threshold
              /\ breaker.state = OPEN => breaker.next_attempt_time # None
              /\ Opens(id) =>
                    /\ RecordsFailure(id)
                    /\ breaker.last_failure_time = clock
                    /\ breaker.next_attempt_time
                          = clock + default_config.recovery_timeout
              /\ (breaker.state = OPEN /\ ~Opens(id)) =>
                    breaker.next_attempt_time = circuit_breakers[id].next_attempt_time
      ]_vars

\* an open breaker with a failure recorded after the one that opened it:
\* more failures than the threshold, the last of them later than the opening
C34_Witness ==
    \E id \in DOMAIN circuit_breakers :
        /\ circuit_breakers[id].state = OPEN
        /\ circuit_breakers[id].failure_count > default_config.failure_threshold
        /\ circuit_breakers[id].last_failure_time + default_config.recovery_timeout
              > circuit_breakers[id].next_attempt_time


\* the state of the breaker of id before this step; an id without a breaker
\* gets one in state closed
StateBefore(id) ==
    IF id \in DOMAIN circuit_breakers THEN circuit_breakers[id].state ELSE CLOSED

\* this step records a success of an invocation for id
RecordsSuccess(id) ==
    /\ Len(retry_history') = Len(retry_history) + 1
    /\ retry_history'[Len(retry_history')].operation_id = id
    /\ retry_history'[Len(retry_history')].result = "success"

\* this step is the gate of a call for id (the call begins)
Gates(id) ==
    \E t \in Tasks : /\ tasks'[t].call_no # tasks[t].call_no
                      /\ tasks'[t].operation_id = id

\* C35: the state of a breaker changes only from closed to open when a
\* failure is recorded, from open to half_open at the gate of a call once
\* next_attempt_time is reached, from half_open to closed when a success is
\* recorded and from half_open to open when a failure is recorded; never
\* from closed to half_open nor from open to closed; and a success or a
\* failure recorded while the breaker is open leaves it open with the same
\* next_attempt_time.
C35_BreakerTransitions ==
    [][\A id \in DOMAIN circuit_breakers' :
          LET from == StateBefore(id)
              to == circuit_breakers'[id].state
          IN  /\ from # to =>
                    \/ from = CLOSED /\ to = OPEN /\ RecordsFailure(id)
                    \/ /\ from = OPEN /\ to = HALF_OPEN /\ Gates(id)
                       /\ clock >= circuit_breakers[id].next_attempt_time
                    \/ from = HALF_OPEN /\ to = CLOSED /\ RecordsSuccess(id)
                    \/ from = HALF_OPEN /\ to = OPEN /\ RecordsFailure(id)
              /\ (from = OPEN /\ (RecordsSuccess(id) \/ RecordsFailure(id))) =>
                    /\ to = OPEN
                    /\ circuit_breakers'[id].next_attempt_time
                          = circuit_breakers[id].next_attempt_time
      ]_vars

\* a success was recorded for an id whose breaker is open: the call was
\* admitted before the breaker opened
C35_Witness ==
    /\ retry_history # <<>>
    /\ retry_history[Len(retry_history)].result = "success"
    /\ LET id == retry_history[Len(retry_history)].operation_id
       IN  /\ id \in DOMAIN circuit_breakers
           /\ circuit_breakers[id].state = OPEN

\* a breaker opened again from half_open: it is open with next_attempt_time
\* later than recovery_timeout after a time at which it was open before
ReopenedFromHalfOpen ==
    \E id \in DOMAIN circuit_breakers :
        /\ circuit_breakers[id].state = OPEN
        /\ circuit_breakers[id].next_attempt_time
              >= 2 * default_config.recovery_timeout
        /\ circuit_breakers[id].failure_count > default_config.failure_threshold


\* C36: every wait between two attempts of a call is at most max_delay,
\* whatever the strategy and the attempt, with jitter and with a retry_after
\* hint on the error of the failed attempt.
C36_WaitsAreAtMostMaxDelay ==
    \A t \in Tasks :
        \A i \in 1 .. Len(tasks[t].delays) :
            tasks[t].delays[i] <= default_config.max_delay

\* what holds: a wait computed without jitter from an error without a
\* usable hint is at most max_delay, and a jittered one at most a tenth more
WaitsWithoutHintAreLimited ==
    \A t \in Tasks :
        \A i \in 1 .. Len(tasks[t].delays) :
            (tasks[t].errors[i].retry_after \in {None, 0}) =>
                /\ 10 * tasks[t].delays[i] <= 11 * default_config.max_delay
                /\ ~default_config.jitter =>
                      tasks[t].delays[i] <= default_config.max_delay


\* this step ends the call of task t with its request enqueued
Enqueues(t) ==
    /\ fallback_tasks[t].pc = "primary"
    /\ fallback_tasks'[t].pc = "returned"
    /\ fallback_tasks'[t].value.source = "human_queue"

\* the request_ids of a table
RequestIds(rows) == {rows[i].request_id : i \in 1 .. Len(rows)}

\* C37: a call that enqueues its request gives it a request_id no request
\* of the queue has, so the queue grows by that one request and every
\* request it held stays as it was, also when the call is for the same
\* operation id and in the same second as an earlier one.
C37_EnqueueNeverOverwrites ==
    [][\A t \in Tasks :
          Enqueues(t) =>
              /\ fallback_tasks'[t].value.handoff_id \notin RequestIds(handoff_requests)
              /\ Len(handoff_requests') = Len(handoff_requests) + 1
              /\ \A i \in 1 .. Len(handoff_requests) :
                    handoff_requests'[i] = handoff_requests[i]
      ]_vars

\* what holds: an enqueue for an operation id in another second than every
\* request of that id in the queue adds one request and changes no other
EnqueueInAnotherSecondAdds ==
    [][\A t \in Tasks :
          (/\ Enqueues(t)
           /\ fallback_tasks'[t].value.handoff_id \notin RequestIds(handoff_requests))
              => /\ Len(handoff_requests') = Len(handoff_requests) + 1
                 /\ \A i \in 1 .. Len(handoff_requests) :
                       handoff_requests'[i] = handoff_requests[i]
      ]_vars

\* two requests of one operation id in the queue, enqueued a second apart
TwoRequestsOfOneOperation ==
    /\ Len(handoff_requests) = 2
    /\ handoff_requests[1].request_id.operation_id
          = handoff_requests[2].request_id.operation_id


\* the primary operation of the call of task t returned a result and the
\* cache write that followed raised
CacheWriteFailed(t) ==
    /\ fallback_tasks[t].pc \in {"returned", "raised"}
    /\ fallback_tasks[t].primary.ok
    /\ fallback_tasks[t].attempted # <<>>
    /\ fallback_tasks[t].attempted[1] = Failure("primary", SqliteError)

\* C39: when the primary operation returns a result and the cache write
\* after it fails, the call still returns that result with success = true,
\* FULL_SERVICE and source "primary", and enters no later stage.
C39_CacheWriteFailureKeepsPrimaryResult ==
    \A t \in Tasks :
        CacheWriteFailed(t) =>
            /\ fallback_tasks[t].pc = "returned"
            /\ fallback_tasks[t].value.success = TRUE
            /\ fallback_tasks[t].value.result = fallback_tasks[t].primary.value
            /\ fallback_tasks[t].value.fallback_level = FULL_SERVICE
            /\ fallback_tasks[t].value.source = "primary"
            /\ fallback_tasks[t].visited = <<"primary">>

\* what holds: after a failed cache write the call goes through the later
\* stages as after a failed primary operation, and its answer is never the
\* primary's, while the table is as the failed write left it
CacheWriteFailureFallsThrough ==
    \A t \in Tasks :
        CacheWriteFailed(t) =>
            /\ fallback_tasks[t].pc = "returned"
            /\ fallback_tasks[t].value.source # "primary"
            /\ fallback_tasks[t].value.fallback_level # FULL_SERVICE
            /\ Len(fallback_tasks[t].visited) >= 2
            /\ fallback_tasks[t].visited[2] = "exact_cache"

=============================================================================
